---------------------------- MODULE Spec2Model ----------------------------
(***************************************************************************)
(* Verification model of the valve-design calculation tool.                *)
(*                                                                         *)
(*   - SpecPages : the calculation pages (page_dc*.py).  One action per    *)
(*     render function; the widget values are the inputs, the dictionary   *)
(*     the page stores in st.session_state is the output.                  *)
(*   - SpecRepo  : the record repositories (dc*_repo.py, valve_repo.py),   *)
(*     the audit log (audit.py) and the transactions of db.connect().      *)
(*   - SpecSession : the pages visited one after another in one browser    *)
(*     session: the entries of st.session_state a page leaves for the      *)
(*     others, and the defaults a page takes from them.                    *)
(*   - SpecAuth  : the token store of auth.py and the script run of        *)
(*     app.py (auto-login, sign-in, logout, dispatch) for two browser      *)
(*     sessions whose token calls interleave.                              *)
(*                                                                         *)
(* Python floats are modelled by exact numbers of the form                 *)
(* (n/d) * EpsInv^k, so that the clamp max(x, 1e-9) and a division by it   *)
(* are exact; float("nan") is the value NaN.                               *)
(***************************************************************************)
EXTENDS Integers, Naturals, Sequences, FiniteSets, TLC

VARIABLES
    page,        \* name of the page rendered last ("none" before any render)
    inp,         \* the widget values of that render
    out,         \* what the page computed and stored in st.session_state
    repo,        \* the repository module under exercise ("none" on the pages)
    design_col,  \* whether dc001_calcs has a design_id column
    rows,        \* the rows of the repository's table
    audit,       \* the rows of audit_logs, oldest first
    now,         \* the database clock: now() of the last committed mutation
    nextId,      \* the next id uuid_generate_v4() hands out
    done,        \* the number of mutations that returned an id or True
    sent,        \* per id, the payload its caller passed last
    last,        \* the last repository call: what it met and returned
    audit_down,  \* whether writes to audit_logs can fail in this behaviour
    designs,     \* the rows of valve_designs the calculations can refer to
    session,     \* st.session_state: the entries some page reads back
    dflt,        \* what the last render read from st.session_state
    tokens_file, \* the content of tokens.json: token -> its entry
    clock,       \* int(time.time()), in seconds
    st_user,     \* per browser session, st.session_state["user"]
    auth_view,   \* per browser session, st.session_state["auth_view"]
    query_auth,  \* per browser session, the ?auth= parameter of its URL
    run,         \* per browser session, where its script run stands
    hist         \* the tokens issued (and when) and revoked so far, and
                 \* whether some call saved a copy that was out of date

pageVars == <<page, inp, out>>

repoVars ==
    <<repo, design_col, rows, audit, now, nextId, done, sent, last, audit_down,
      designs>>

sessVars == <<session, dflt>>

authVars == <<tokens_file, clock, st_user, auth_view, query_auth, run, hist>>

vars == <<page, inp, out, repo, design_col, rows, audit, now, nextId, done, sent,
          last, audit_down, designs, session, dflt, tokens_file, clock, st_user,
          auth_view, query_auth, run, hist>>

-----------------------------------------------------------------------------
(* Numbers.                                                                *)

\* 1e-9 = 1 / EpsInv, the clamp used by every "max(x, 1e-9)" of the pages
EpsInv == 1000000000

Abs(i) == IF i < 0 THEN -i ELSE i

Sgn(i) == IF i < 0 THEN -1 ELSE IF i = 0 THEN 0 ELSE 1

RECURSIVE GCD(_, _)
GCD(a, b) == IF b = 0 THEN a ELSE GCD(b, a % b)

\* the number (n/d) * EpsInv^k in lowest terms; d > 0
Num(n, d, k) ==
    IF n = 0 THEN [n |-> 0, d |-> 1, k |-> 0]
    ELSE LET g == GCD(Abs(n), d) IN [n |-> n \div g, d |-> d \div g, k |-> k]

R(n, d) == Num(n, d, 0)

I(n) == Num(n, 1, 0)

\* float("nan")
NaN == [n |-> 0, d |-> 0, k |-> 0]

IsNaN(x) == x.d = 0

\* the literal 1e-9
EPS == Num(1, 1, -1)

Mul(x, y) ==
    IF IsNaN(x) \/ IsNaN(y) THEN NaN
    ELSE LET g1 == GCD(Abs(x.n), y.d)
             g2 == GCD(Abs(y.n), x.d)
             a  == IF g1 = 0 THEN 1 ELSE g1
             b  == IF g2 = 0 THEN 1 ELSE g2
         IN  Num((x.n \div a) * (y.n \div b), (x.d \div b) * (y.d \div a), x.k + y.k)

\* x / y.  Python raises ZeroDivisionError for y = 0: the pages record every
\* divisor they use, and the quotient by zero is left undefined (NaN) here
Div(x, y) ==
    IF IsNaN(x) \/ IsNaN(y) \/ y.n = 0 THEN NaN
    ELSE Mul(x, [n |-> Sgn(y.n) * y.d, d |-> Abs(y.n), k |-> -y.k])

Neg(x) == IF IsNaN(x) THEN NaN ELSE [n |-> -x.n, d |-> x.d, k |-> x.k]

\* x + y for operands of the same power of EpsInv (or a zero operand)
Add(x, y) ==
    IF IsNaN(x) \/ IsNaN(y) THEN NaN
    ELSE IF x.n = 0 THEN y
    ELSE IF y.n = 0 THEN x
    ELSE LET g == GCD(x.d, y.d)
         IN  Num(x.n * (y.d \div g) + y.n * (x.d \div g), (x.d \div g) * y.d, x.k)

Sub(x, y) == Add(x, Neg(y))

\* Natural numbers of any size, as little-endian sequences of digits in
\* base BNBase, to compare products that do not fit the 32-bit integers
BNBase == 10000

RECURSIVE BN(_)
BN(n) == IF n = 0 THEN << >> ELSE <<n % BNBase>> \o BN(n \div BNBase)

BNRest(x) == IF x = << >> THEN << >> ELSE Tail(x)

BNFirst(x) == IF x = << >> THEN 0 ELSE Head(x)

RECURSIVE BNAdd(_, _, _)
BNAdd(x, y, c) ==
    IF x = << >> /\ y = << >> THEN (IF c = 0 THEN << >> ELSE <<c>>)
    ELSE LET s == BNFirst(x) + BNFirst(y) + c
         IN  <<s % BNBase>> \o BNAdd(BNRest(x), BNRest(y), s \div BNBase)

RECURSIVE BNMulDigit(_, _, _)
BNMulDigit(x, m, c) ==
    IF x = << >> THEN (IF c = 0 THEN << >> ELSE <<c>>)
    ELSE LET p == Head(x) * m + c
         IN  <<p % BNBase>> \o BNMulDigit(Tail(x), m, p \div BNBase)

BNShift(x) == IF x = << >> THEN << >> ELSE <<0>> \o x

RECURSIVE BNMul(_, _)
BNMul(x, y) ==
    IF x = << >> \/ y = << >> THEN << >>
    ELSE LET lo == IF Head(y) = 0 THEN << >> ELSE BNMulDigit(x, Head(y), 0)
         IN  BNAdd(lo, BNShift(BNMul(x, Tail(y))), 0)

RECURSIVE BNLeqFrom(_, _, _)
BNLeqFrom(x, y, i) ==
    IF i = 0 THEN TRUE
    ELSE IF x[i] # y[i] THEN x[i] < y[i]
    ELSE BNLeqFrom(x, y, i - 1)

BNLeq(x, y) ==
    IF Len(x) # Len(y) THEN Len(x) < Len(y) ELSE BNLeqFrom(x, y, Len(x))

RECURSIVE BNTimesEpsInv(_, _)
BNTimesEpsInv(x, m) ==
    IF m = 0 THEN x ELSE BNTimesEpsInv(BNMul(x, BN(EpsInv)), m - 1)

\* |x| <= |y| :  |x.n| * y.d * E^(x.k - j) <= |y.n| * x.d * E^(y.k - j)
MagLeq(x, y) ==
    LET j == IF x.k < y.k THEN x.k ELSE y.k
    IN  BNLeq(BNTimesEpsInv(BNMul(BN(Abs(x.n)), BN(y.d)), x.k - j),
              BNTimesEpsInv(BNMul(BN(Abs(y.n)), BN(x.d)), y.k - j))

\* the Python comparison x <= y (False when an operand is nan)
Leq(x, y) ==
    IF IsNaN(x) \/ IsNaN(y) THEN FALSE
    ELSE IF Sgn(x.n) # Sgn(y.n) THEN Sgn(x.n) < Sgn(y.n)
    ELSE IF x.n = 0 THEN TRUE
    ELSE IF x.n > 0 THEN MagLeq(x, y)
    ELSE MagLeq(y, x)

\* The built-in max(a, b): b when b > a, else a (so max(nan, b) is nan and
\* max(a, nan) is a)
PyMax(a, b) == IF ~ IsNaN(a) /\ ~ IsNaN(b) /\ ~ Leq(b, a) THEN b ELSE a

\* x unclamped (mutation of ClampEps)
ClampEps_unclamped(x) == x

\* max(x, 1e-9)
ClampEps(x) == PyMax(x, EPS)

Geq(x, y) == Leq(y, x)

Lt(x, y) == ~ IsNaN(x) /\ ~ IsNaN(y) /\ ~ Leq(y, x)

Gt(x, y) == Lt(y, x)

-----------------------------------------------------------------------------
(* The bolt pages: page_dc002.py, page_dc002a.py, page_dc005.py,           *)
(* page_dc005a.py.                                                         *)

\* math.pi, as the rational 355/113
PI == R(355, 113)

\* x ** 2
Sq(x) == Mul(x, x)

\* the catalog expression  <inch2> * 645.16, for <inch2> = t / 10000
InchArea(t) == Mul(R(t, 10000), R(64516, 100))

\* BOLT_TENSILE_AREAS_MM2 of page_dc002.py and page_dc002a.py, in dict order
DC002_BOLT_TENSILE_AREAS_MM2 ==
    << [size |-> "1/2in UNC", area |-> InchArea(1599)],
       [size |-> "5/8in UNC", area |-> InchArea(2260)],
       [size |-> "3/4in UNC", area |-> InchArea(3340)],
       [size |-> "7/8in UNC", area |-> InchArea(4620)],
       [size |-> "1in UNC",   area |-> InchArea(6060)],
       [size |-> "M16",       area |-> I(157)],
       [size |-> "M20",       area |-> I(245)],
       [size |-> "M24",       area |-> I(353)] >>

\* BOLT_TENSILE_AREAS_MM2 of page_dc005.py and page_dc005a.py, in dict order
DC005_BOLT_TENSILE_AREAS_MM2 ==
    << [size |-> "M10",       area |-> I(58)],
       [size |-> "M12",       area |-> R(843, 10)],
       [size |-> "M16",       area |-> I(157)],
       [size |-> "M20",       area |-> I(245)],
       [size |-> "M24",       area |-> I(353)],
       [size |-> "1/2in UNC", area |-> InchArea(1599)],
       [size |-> "5/8in UNC", area |-> InchArea(2260)],
       [size |-> "3/4in UNC", area |-> InchArea(3340)] >>

\* the loop "for i, k in enumerate(options): if AREAS[k] >= a_req: ... break"
\* from position i on; indices are Python's (0-based), the result is
\* default_idx, which stays 0 when the loop never breaks
RECURSIVE FirstGeqFrom(_, _, _)
FirstGeqFrom(catalog, a_req, i) ==
    IF i >= Len(catalog) THEN 0
    ELSE IF Geq(catalog[i + 1].area, a_req) THEN i
    ELSE FirstGeqFrom(catalog, a_req, i + 1)

DefaultIdx_first(catalog, a_req) == 0

DefaultIdx(catalog, a_req) == FirstGeqFrom(catalog, a_req, 0)

\* the selectbox: the user keeps the default (KeepDefault) or picks an index
KeepDefault == -1

\* "BOLTS SECTION CALCULATION" and the check, common to the four pages:
\* from the load Wm1, the allowable stress S, the bolt number n and the
\* selectbox choice
BoltSection(catalog, Wm1, S, n, pick) ==
    LET Am          == Div(Wm1, ClampEps(S))
        a_req_each  == Div(Am, I(n))
        default_idx == DefaultIdx(catalog, a_req_each)
        idx         == IF pick = KeepDefault THEN default_idx ELSE pick
        a           == catalog[idx + 1].area
        Ab          == Mul(a, I(n))
        Sa_eff      == Div(Wm1, ClampEps(Ab))
    IN  [ H_N |-> Wm1, Wm1_N |-> Wm1, Am_mm2 |-> Am, n |-> n,
          a_req_each_mm2 |-> a_req_each, default_idx |-> default_idx,
          bolt_size |-> catalog[idx + 1].size, a_mm2 |-> a, Ab_mm2 |-> Ab,
          Sa_eff_MPa |-> Sa_eff,
          verdict |-> IF Leq(Sa_eff, S) THEN "VERIFIED" ELSE "NOT VERIFIED",
          divisors |-> {ClampEps(S), I(n), ClampEps(Ab)},
          roots |-> {} ]

\* H = 0.785 * (G ** 2) * Pa
DC002_H(G, Pa) == Mul(Mul(R(785, 1000), Sq(G)), Pa)

\* ring_area = (math.pi / 4.0) * max(G**2 - Gstem**2, 0.0);  H = ring_area * Pa
DC005_ring_area(G, Gstem) ==
    Mul(Div(PI, I(4)), PyMax(Sub(Sq(G), Sq(Gstem)), I(0)))

DC005_H(G, Gstem, Pa) == Mul(DC005_ring_area(G, Gstem), Pa)

\* widget values offered to the bolt pages
DC002_G == {I(0), I(10)}

DC002_Pa == {I(-1), I(0), I(3), I(16), EPS}

DC005_G == {I(0), I(60)}

DC005_Gstem == {I(0), I(20), I(80)}

DC005_Pa == {I(-1), I(0), I(10), I(40)}

Bolt_S == {I(-5), I(0), I(1), I(138), Num(1, 2, -1)}

Bolt_n == {1, 2, 6}

DC002_Picks == {KeepDefault, 5, 7}

DC005_Picks == {KeepDefault, 0, 4}

\* Streamlit runs the page function again after every widget interaction:
\* a run of page p sees either the widget values of the first visit (when
\* another page was shown before) or the previous values with one widget
\* changed by the user
Rerun(p, first, widgets) ==
    IF page # p THEN {first}
    ELSE UNION {{[inp EXCEPT ![w] = v] : v \in widgets[w]} : w \in DOMAIN widgets}

DC002_widgets ==
    [G |-> DC002_G, Pa |-> DC002_Pa, S |-> Bolt_S, n |-> Bolt_n,
     pick |-> DC002_Picks]

DC002_first ==
    [G |-> I(10), Pa |-> I(3), S |-> I(138), n |-> 6, pick |-> KeepDefault]

DC005_widgets ==
    [G |-> DC005_G, Gstem |-> DC005_Gstem, Pa |-> DC005_Pa, S |-> Bolt_S,
     n |-> Bolt_n, pick |-> DC005_Picks]

DC005_first ==
    [G |-> I(60), Gstem |-> I(20), Pa |-> I(10), S |-> I(138), n |-> 6,
     pick |-> KeepDefault]

render_dc002 ==
    \E w \in Rerun("DC002", DC002_first, DC002_widgets) :
        /\ page' = "DC002"
        /\ inp' = w
        /\ UNCHANGED <<repoVars, sessVars, authVars>>
        /\ out' = BoltSection(DC002_BOLT_TENSILE_AREAS_MM2,
                              DC002_H(w.G, w.Pa), w.S, w.n, w.pick)

\* the same page for the test pressure Pa_test
render_dc002a ==
    \E w \in Rerun("DC002A", DC002_first, DC002_widgets) :
        /\ page' = "DC002A"
        /\ inp' = w
        /\ UNCHANGED <<repoVars, sessVars, authVars>>
        /\ out' = BoltSection(DC002_BOLT_TENSILE_AREAS_MM2,
                              DC002_H(w.G, w.Pa), w.S, w.n, w.pick)

render_dc005 ==
    \E w \in Rerun("DC005", DC005_first, DC005_widgets) :
        /\ page' = "DC005"
        /\ inp' = w
        /\ UNCHANGED <<repoVars, sessVars, authVars>>
        /\ out' = BoltSection(DC005_BOLT_TENSILE_AREAS_MM2,
                              DC005_H(w.G, w.Gstem, w.Pa), w.S, w.n, w.pick)

\* the same page for the test pressure Pa_test
render_dc005a ==
    \E w \in Rerun("DC005A", DC005_first, DC005_widgets) :
        /\ page' = "DC005A"
        /\ inp' = w
        /\ UNCHANGED <<repoVars, sessVars, authVars>>
        /\ out' = BoltSection(DC005_BOLT_TENSILE_AREAS_MM2,
                              DC005_H(w.G, w.Gstem, w.Pa), w.S, w.n, w.pick)

-----------------------------------------------------------------------------
(* page_dc001.py : seat insert and spring.                                 *)

\* math.ceil(x), for the values the model can represent: a plain rational,
\* a number below 1e-9 in magnitude times a rational below 1e9, or an
\* integer multiple of 1e9 (math.ceil(nan) raises ValueError: nan here)
Ceil(x) ==
    CASE IsNaN(x) -> NaN
      [] ~ IsNaN(x) /\ x.k = 0 -> I(-((-x.n) \div x.d))
      [] x.k < 0 /\ Abs(x.n) \div x.d < EpsInv -> IF x.n > 0 THEN I(1) ELSE I(0)
      [] x.k > 0 /\ EpsInv % x.d = 0 -> x

\* a + b as a pair of terms: one term when the sum is a number of the model
SumOf(a, b) ==
    IF a.n = 0 \/ b.n = 0 \/ a.k = b.k THEN <<Add(a, b), I(0)>> ELSE <<a, b>>

\* the natural number |t.n| * m * EpsInv^(t.k - j)
BNTerm(t, m, j) == BNTimesEpsInv(BNMul(BN(Abs(t.n)), m), t.k - j)

\* the product of the denominators of the terms ts, the one at position
\* skip left out
RECURSIVE BNDenProd(_, _)
BNDenProd(ts, skip) ==
    IF ts = << >> THEN <<1>>
    ELSE LET r == BNDenProd(Tail(ts), skip - 1)
         IN  IF skip = 1 THEN r ELSE BNMul(BN(Head(ts).d), r)

\* the least power of EpsInv among the terms ts
MinK(ts) ==
    CHOOSE j \in {ts[i].k : i \in DOMAIN ts} :
        \A i \in DOMAIN ts : j <= ts[i].k

\* The terms ts[1..nL] are the left side of a comparison and the others the
\* right side.  The sum of the magnitudes, scaled to natural numbers, of the
\* terms that count positively for the left (side = 1) or for the right
\* (side = -1), from position i on
RECURSIVE BNSumSide(_, _, _, _, _)
BNSumSide(ts, nL, j, side, i) ==
    IF i > Len(ts) THEN << >>
    ELSE LET sg   == IF i <= nL THEN Sgn(ts[i].n) ELSE - Sgn(ts[i].n)
             rest == BNSumSide(ts, nL, j, side, i + 1)
         IN  IF sg = side
             THEN BNAdd(BNTerm(ts[i], BNDenProd(ts, i), j), rest, 0)
             ELSE rest

\* (sum of the terms of s) <= (sum of the terms of t), exactly
SumLeq(s, t) ==
    LET ts == s \o t
        j  == MinK(ts)
    IN  BNLeq(BNSumSide(ts, Len(s), j, 1, 1), BNSumSide(ts, Len(s), j, -1, 1))

SumLt(s, t) == ~ SumLeq(t, s)

\* a sum of terms times a number
SumScale(s, m) == <<Mul(s[1], m), Mul(s[2], m)>>

\* the catalogue values Y_max [MPa] of the materials offered
DC001_materials == [PTFE |-> 9, PEEK |-> 90]

\* the check with a strict comparison (mutation of DC001_check)
DC001_check_strict(total_load, Fm) ==
    IF Gt(total_load, Fm) THEN "VERIFIED" ELSE "NOT VERIFIED"

\* check_str = "VERIFIED" if total_load >= Fm else "NOT VERIFIED"
DC001_check(total_load, Fm) ==
    IF Geq(total_load, Fm) THEN "VERIFIED" ELSE "NOT VERIFIED"

DC001_compute(w) ==
    LET Fm          == Mul(Mul(Mul(PI, w.Dm), w.q), w.z)
        Nm          == Div(Fm, ClampEps(w.P))
        Pr          == Div(Mul(w.P, Sub(w.f, R(1, 2))), ClampEps(w.f))
        Nmr         == Div(Fm, ClampEps(Pr))
        Nma_default == PyMax(I(1), Ceil(Nmr))
        Nma         == IF w.Nma = KeepDefault THEN Nma_default ELSE I(w.Nma)
        total_load  == Pr
        C1effective == Div(total_load, Mul(PI, ClampEps(w.Dm)))
        check_str   == DC001_check(total_load, Fm)
        Y_max       == I(DC001_materials[w.mat])
        Dcs         == Div(Add(w.De, Mul(I(2), w.Di)), I(3))
        Fmr         == total_load
        DeDi_mean   == Div(Add(w.De, w.Di), I(2))
        pressure_term ==
            Mul(Mul(Mul(Sub(Sq(w.Dc), Sq(DeDi_mean)), R(11, 10)), w.Pa),
                Div(PI, I(4)))
        F           == SumOf(pressure_term, Fmr)
        denom_area  == ClampEps(Mul(Sub(Sq(w.De), Sq(w.Di)), PI))
        Q           == SumScale(F, Div(I(4), denom_area))
    IN  [ Fm |-> Fm, P |-> w.P, Nm |-> Nm, f |-> w.f, Pr |-> Pr, Nmr |-> Nmr,
          Nma |-> Nma, Dm |-> w.Dm, C1effective |-> C1effective,
          check |-> check_str, Dcs |-> Dcs, F |-> F, Q |-> Q, Y_max |-> Y_max,
          Q_check |-> IF SumLt(Q, <<Y_max>>) THEN "OK (Q < Y_max)"
                      ELSE "NOT OK (Q >= Y_max)",
          divisors |-> {ClampEps(w.P), ClampEps(w.f), ClampEps(Pr),
                        Mul(PI, ClampEps(w.Dm)), I(3), I(2), I(4), denom_area},
          roots |-> {} ]

DC001_widgets ==
    [Dm |-> {I(0), I(113)}, q |-> {I(2)}, z |-> {I(0), I(1)},
     P |-> {I(-1420), I(0), I(1420)}, f |-> {I(-1), I(0), I(1), I(2)},
     Nma |-> {KeepDefault, 3}, mat |-> {"PTFE", "PEEK"},
     De |-> {I(4), I(6)}, Di |-> {I(0), I(4)}, Dc |-> {I(6)},
     Pa |-> {I(0), I(10)}]

DC001_first ==
    [Dm |-> I(113), q |-> I(2), z |-> I(1), P |-> I(1420), f |-> I(2),
     Nma |-> KeepDefault, mat |-> "PTFE", De |-> I(6), Di |-> I(4),
     Dc |-> I(6), Pa |-> I(10)]

render_dc001 ==
    \E w \in Rerun("DC001", DC001_first, DC001_widgets) :
        /\ page' = "DC001"
        /\ inp' = w
        /\ UNCHANGED <<repoVars, sessVars, authVars>>
        /\ out' = DC001_compute(w)

-----------------------------------------------------------------------------
(* page_dc004.py : seat thickness.                                         *)

\* real_t = 6.90
real_t == R(69, 10)

\* the verdict with a strict comparison (mutation of DC004_verdict)
DC004_verdict_strict(req_t) ==
    IF ~ IsNaN(req_t) /\ Gt(real_t, req_t) THEN "VERIFIED" ELSE "NOT VERIFIED"

\* verdict = "VERIFIED" if (not (req_t != req_t)) and real_t >= req_t
\*           else "NOT VERIFIED"
DC004_verdict(req_t) ==
    IF ~ IsNaN(req_t) /\ Geq(real_t, req_t) THEN "VERIFIED" ELSE "NOT VERIFIED"

DC004_compute(w) ==
    LET denom_d1 == Mul(I(2), Sub(w.SaF316, Mul(R(6, 10), w.P)))
        t_design == IF Gt(denom_d1, I(0)) THEN Div(Mul(w.P, w.Di), denom_d1)
                    ELSE NaN
        denom_d2 == Mul(I(2), Sub(w.SmF316, Mul(R(6, 10), w.PT)))
        t_test   == IF Gt(denom_d2, I(0)) THEN Div(Mul(w.PT, w.Di), denom_d2)
                    ELSE NaN
        req_t    == PyMax(t_design, t_test)
    IN  [ t_design_mm |-> t_design, t_test_mm |-> t_test, real_t_mm |-> real_t,
          required_t_mm |-> req_t,
          verdict |-> DC004_verdict(req_t),
          divisors |-> (IF Gt(denom_d1, I(0)) THEN {denom_d1} ELSE {})
                       \cup (IF Gt(denom_d2, I(0)) THEN {denom_d2} ELSE {}),
          roots |-> {} ]

DC004_widgets ==
    [SmF316 |-> {I(0), I(106)}, SaF316 |-> {I(0), I(6), I(106)},
     Di |-> {I(0), I(138), I(200)}, P |-> {I(-10), I(0), I(10)},
     PT |-> {I(0), I(10), I(11), I(200)}]

DC004_first ==
    [SmF316 |-> I(106), SaF316 |-> I(106), Di |-> I(138), P |-> I(10),
     PT |-> I(11)]

render_dc004 ==
    \E w \in Rerun("DC004", DC004_first, DC004_widgets) :
        /\ page' = "DC004"
        /\ inp' = w
        /\ UNCHANGED <<repoVars, sessVars, authVars>>
        /\ out' = DC004_compute(w)

-----------------------------------------------------------------------------
(* page_dc003.py : bearing stress.                                         *)

\* BEARING_MATERIALS[mat]["dynamic"]
BEARING_MATERIALS ==
    [ SS316_FRICTION_COATED |-> 140, INCONEL_625_FRICTION_COATED |-> 140,
      MILD_STEEL_FRICTION_COATED |-> 140, INCONEL_625_HT |-> 140,
      SS316_HT |-> 140 ]

DC003_compute(w) ==
    LET Sb   == Mul(Mul(PI, w.Db), w.Hb)
        BBS  == Div(Mul(Mul(PI, w.P), Sq(w.Dt)), Mul(I(8), ClampEps(Sb)))
        MABS == I(BEARING_MATERIALS[w.mat])
    IN  [ Sb_mm2 |-> Sb, BBS_MPa |-> BBS, MABS_MPa |-> MABS, material |-> w.mat,
          verdict |-> IF Leq(BBS, MABS) THEN "VERIFIED" ELSE "NOT VERIFIED",
          divisors |-> {Mul(I(8), ClampEps(Sb))},
          roots |-> {} ]

DC003_widgets ==
    [P |-> {I(-10), I(0), I(10)}, Dt |-> {I(0), I(7)},
     Db |-> {I(-4), I(0), I(4)}, Hb |-> {I(0), I(7)},
     mat |-> {"SS316_FRICTION_COATED", "SS316_HT"}]

DC003_first ==
    [P |-> I(10), Dt |-> I(7), Db |-> I(4), Hb |-> I(7),
     mat |-> "SS316_FRICTION_COATED"]

render_dc003 ==
    \E w \in Rerun("DC003", DC003_first, DC003_widgets) :
        /\ page' = "DC003"
        /\ inp' = w
        /\ UNCHANGED <<repoVars, sessVars, authVars>>
        /\ out' = DC003_compute(w)

-----------------------------------------------------------------------------
(* page_dc006a.py : flange stress, test condition.                         *)

DC006A_compute(w) ==
    LET N    == Div(Sub(w.ESGD, w.ISGD), I(2))
        b0   == Div(N, I(2))
        b    == b0
        G    == Sub(w.ESGD, Mul(I(2), b))
        H    == Mul(Mul(Div(PI, I(4)), Sq(G)), w.Pa_test)
        Hp   == Mul(Mul(Mul(Mul(Mul(I(2), b), PI), G), w.m), w.Pa_test)
        Wm1  == Add(H, Hp)
        Wm2  == Mul(Mul(Mul(PI, b), G), w.y)
        K    == SumScale(SumOf(I(1), Neg(Div(Mul(R(67, 100), w.ESGD),
                                             ClampEps(w.Bcd)))),
                         Div(I(2), PI))
        FT2  == Sq(ClampEps(w.FT))
        Sf1  == SumScale(K, Div(Wm1, FT2))
        Sf2  == SumScale(K, Div(Wm2, FT2))
        Sf   == IF SumLt(Sf1, Sf2) THEN Sf2 ELSE Sf1
    IN  [ N_mm |-> N, b0_mm |-> b0, b_mm |-> b, G_mm |-> G, H_N |-> H,
          Hp_N |-> Hp, Wm1_N |-> Wm1, Wm2_N |-> Wm2, K |-> K, Sf1_MPa |-> Sf1,
          Sf2_MPa |-> Sf2, Sf_MPa |-> Sf, allow_MPa |-> w.allow,
          verdict |-> IF SumLeq(Sf, <<w.allow>>) THEN "OK" ELSE "NOT OK",
          divisors |-> {I(2), I(4), PI, ClampEps(w.Bcd), FT2},
          roots |-> {} ]

DC006A_widgets ==
    [Pa_test |-> {I(-1), I(0), I(1)}, FT |-> {I(0), I(2)}, ISGD |-> {I(10)},
     Bcd |-> {I(-1), I(0), I(14)}, ESGD |-> {I(10), I(12)}, m |-> {I(2)},
     y |-> {I(5)}, allow |-> {I(0), I(161)}]

DC006A_first ==
    [Pa_test |-> I(1), FT |-> I(2), ISGD |-> I(10), Bcd |-> I(14),
     ESGD |-> I(12), m |-> I(2), y |-> I(5), allow |-> I(161)]

render_dc006a ==
    \E w \in Rerun("DC006A", DC006A_first, DC006A_widgets) :
        /\ page' = "DC006A"
        /\ inp' = w
        /\ UNCHANGED <<repoVars, sessVars, authVars>>
        /\ out' = DC006A_compute(w)

-----------------------------------------------------------------------------
(* page_dc008.py : ball sizing.                                            *)

REQ_SY == [c150_600 |-> I(170), c900 |-> I(205), c1500 |-> I(250),
           c2500 |-> I(300)]

REQ_DB == [c150_600 |-> R(150, 100), c900 |-> R(155, 100),
           c1500 |-> R(160, 100), c2500 |-> R(170, 100)]

DC008_verdict_nan_ok(St1a, allow_23Sy) ==
    IF IsNaN(St1a) \/ Leq(St1a, allow_23Sy) THEN "OK" ELSE "NOT OK"

\* verdict = "OK" if (not (St1a != St1a)) and (St1a <= allow_23Sy)
DC008_verdict(St1a, allow_23Sy) ==
    IF ~ IsNaN(St1a) /\ Leq(St1a, allow_23Sy) THEN "OK" ELSE "NOT OK"

DC008_compute(w) ==
    LET T          == Sub(w.H, Div(w.B, I(2)))
        req_Sy_min == REQ_SY[w.cls_yield]
        req_DB_min == REQ_DB[w.cls_ratio]
        actual_DB  == IF w.B.n # 0 THEN Div(w.D_ball, w.B) ELSE NaN
        St1a       == IF Leq(T, I(0)) THEN NaN
                      ELSE Mul(w.Pr, Add(Mul(R(1, 2), Div(w.B, T)), R(6, 10)))
        allow_23Sy == Mul(Div(I(2), I(3)), w.Sy)
    IN  [ T_mm |-> T, req_Sy_min |-> req_Sy_min, req_DB_min |-> req_DB_min,
          actual_DB |-> actual_DB, St1a_MPa |-> St1a,
          allow_23Sy_MPa |-> allow_23Sy,
          check_sy |-> Geq(w.Sy, req_Sy_min),
          check_db |-> Geq(actual_DB, req_DB_min),
          verdict |-> DC008_verdict(St1a, allow_23Sy),
          divisors |-> {I(2), I(3)}
                       \cup (IF w.B.n # 0 THEN {w.B} ELSE {})
                       \cup (IF Leq(T, I(0)) THEN {} ELSE {T}),
          roots |-> {} ]

DC008_widgets ==
    [Pr |-> {I(-10), I(0), I(10)}, D_ball |-> {I(0), I(90)},
     B |-> {I(-50), I(0), I(50)}, Sy |-> {I(0), I(205)},
     H |-> {I(0), I(25), I(30)}, cls_yield |-> {"c150_600", "c2500"},
     cls_ratio |-> {"c150_600", "c2500"}]

DC008_first ==
    [Pr |-> I(10), D_ball |-> I(90), B |-> I(50), Sy |-> I(205), H |-> I(30),
     cls_yield |-> "c150_600", cls_ratio |-> "c150_600"]

render_dc008 ==
    \E w \in Rerun("DC008", DC008_first, DC008_widgets) :
        /\ page' = "DC008"
        /\ inp' = w
        /\ UNCHANGED <<repoVars, sessVars, authVars>>
        /\ out' = DC008_compute(w)

-----------------------------------------------------------------------------
(* page_dc011.py : flow coefficient.                                       *)

\* FT_TABLE : (DN [in], f_t)
FT_TABLE ==
    << <<R(50, 100), R(27, 1000)>>, <<R(75, 100), R(25, 1000)>>,
       <<I(1), R(23, 1000)>>,       <<R(125, 100), R(22, 1000)>>,
       <<R(150, 100), R(21, 1000)>>, <<I(2), R(19, 1000)>>,
       <<R(250, 100), R(18, 1000)>>, <<I(3), R(18, 1000)>>,
       <<I(4), R(17, 1000)>>,       <<I(5), R(16, 1000)>>,
       <<I(6), R(15, 1000)>>,       <<I(8), R(14, 1000)>>,
       <<I(10), R(14, 1000)>>,      <<I(12), R(13, 1000)>>,
       <<I(14), R(13, 1000)>>,      <<I(16), R(13, 1000)>>,
       <<I(18), R(12, 1000)>>,      <<I(20), R(12, 1000)>> >>

\* FT_MAP[dn]
FT_MAP(dn) == FT_TABLE[CHOOSE i \in DOMAIN FT_TABLE : FT_TABLE[i][1] = dn][2]

\* the integer square root of a perfect square
ISqrt(n) == CHOOSE r \in 0..n : r * r = n

\* math.sqrt(x), for the positive rationals whose root is rational
Sqrt(x) == R(ISqrt(x.n), ISqrt(x.d))

DC011_K_local_K2(theta_deg, K1, K2) == K2

\* K_local = K1 if theta_deg == 0 else K2
DC011_K_local(theta_deg, K1, K2) == IF theta_deg = I(0) THEN K1 ELSE K2

DC011_compute(w) ==
    LET beta      == IF Gt(w.inner_bore_mm, I(0))
                     THEN Div(w.seat_bore_mm, w.inner_bore_mm) ELSE NaN
        theta_rad == Div(Mul(w.theta_deg, PI), I(180))
        taper_len_mm == IF Gt(w.theta_deg, I(0)) THEN w.taper_len_mm ELSE I(0)
        ft        == FT_MAP(w.dn_choice)
        D_in      == IF Gt(w.inner_bore_mm, I(0))
                     THEN Div(w.inner_bore_mm, R(254, 10)) ELSE NaN
        K_local   == DC011_K_local(w.theta_deg, w.K1, w.K2)
        fric      == Gt(w.theta_deg, I(0)) /\ Gt(taper_len_mm, I(0))
                     /\ Gt(w.inner_bore_mm, I(0))
        K_fric    == IF fric THEN Mul(ft, Div(taper_len_mm, w.inner_bore_mm))
                     ELSE I(0)
        K_total   == Add(K_local, K_fric)
        hasCv     == Gt(K_total, I(0)) /\ Gt(D_in, I(0))
        Cv        == IF hasCv
                     THEN Div(Mul(R(299, 10), Sq(D_in)), Sqrt(K_total))
                     ELSE NaN
    IN  [ beta |-> beta, theta_rad |-> theta_rad,
          taper_len_mm |-> taper_len_mm, ft |-> ft, K_local |-> K_local,
          K_fric |-> K_fric, K_total |-> K_total, Cv_gpm_at_1psi |-> Cv,
          divisors |-> {I(180)}
              \cup (IF Gt(w.inner_bore_mm, I(0))
                    THEN {w.inner_bore_mm, R(254, 10)} ELSE {})
              \cup (IF hasCv THEN {Sqrt(K_total)} ELSE {}),
          roots |-> IF hasCv THEN {K_total} ELSE {} ]

DC011_widgets ==
    [inner_bore_mm |-> {I(-1), I(0), R(254, 5)},
     seat_bore_mm |-> {I(0), R(254, 5)},
     theta_deg |-> {I(-1), I(0), I(5)}, taper_len_mm |-> {I(0), I(508)},
     dn_choice |-> {I(2)}, K1 |-> {R(-1, 4), I(0), R(1, 4)},
     K2 |-> {R(-19, 100), R(81, 100)}]

DC011_first ==
    [inner_bore_mm |-> R(254, 5), seat_bore_mm |-> R(254, 5),
     theta_deg |-> I(0), taper_len_mm |-> I(0), dn_choice |-> I(2),
     K1 |-> R(1, 4), K2 |-> R(81, 100)]

render_dc011 ==
    \E w \in Rerun("DC011", DC011_first, DC011_widgets) :
        /\ page' = "DC011"
        /\ inp' = w
        /\ UNCHANGED <<repoVars, sessVars, authVars>>
        /\ out' = DC011_compute(w)

-----------------------------------------------------------------------------
(* page_dc012.py : lifting eye bolts.                                      *)

THREADS == <<"M8", "M10", "M12", "M16", "M20", "M24", "M30", "M36", "M42",
             "M48", "M56">>

AREA_MAP ==
    [M8 |-> 36, M10 |-> 58, M12 |-> 84, M16 |-> 157, M20 |-> 245, M24 |-> 353,
     M30 |-> 561, M36 |-> 817, M42 |-> 1120, M48 |-> 1470, M56 |-> 2030]

\* RATED_0_MAP; the thread whose value is None is left out
RATED_0_MAP ==
    [M8 |-> 140, M10 |-> 230, M12 |-> 340, M16 |-> 700, M20 |-> 1200,
     M24 |-> 1800, M30 |-> 3600, M36 |-> 5100, M42 |-> 7000, M48 |-> 8600]

RATED_45_MAP ==
    [M8 |-> 95, M10 |-> 170, M12 |-> 240, M16 |-> 500, M20 |-> 830,
     M24 |-> 1270, M30 |-> 2600, M36 |-> 3700, M42 |-> 5000, M48 |-> 6100,
     M56 |-> 8300]

\* MATERIALS[mat]["allowable"] = 295.0 / 4.0
MATERIALS == [C15 |-> Div(I(295), I(4))]

Ec_unrated(per_bolt_kg, F_rated_kg) == Leq(per_bolt_kg, F_rated_kg)

\* ec_ok = per_bolt_kg <= F_rated_kg if F_rated_kg > 0 else False
Ec(per_bolt_kg, F_rated_kg) ==
    IF Gt(F_rated_kg, I(0)) THEN Leq(per_bolt_kg, F_rated_kg) ELSE FALSE

DC012_compute(w) ==
    LET rated_tbl == IF w.angle = "0" THEN RATED_0_MAP ELSE RATED_45_MAP
        F_rated_kg_default ==
            IF w.thread \in DOMAIN rated_tbl THEN I(rated_tbl[w.thread])
            ELSE I(0)
        F_rated_kg == IF w.F_rated_kg = KeepDefault THEN F_rated_kg_default
                      ELSE I(w.F_rated_kg)
        per_bolt_kg == Div(w.P_kg, I(w.N))
        ec_ok     == Ec(per_bolt_kg, F_rated_kg)
        g         == R(981, 100)
        hasEs     == w.N > 0 /\ Gt(w.A_mm2, I(0))
        Es_MPa    == IF hasEs
                     THEN Div(Mul(w.P_kg, g), Mul(I(w.N), w.A_mm2)) ELSE NaN
        allowable == MATERIALS[w.mat]
    IN  [ F_rated_kg |-> F_rated_kg, per_bolt_kg |-> per_bolt_kg,
          Ec_ok |-> ec_ok, Es_MPa |-> Es_MPa, allowable_MPa |-> allowable,
          stress_ok |-> ~ IsNaN(Es_MPa) /\ Leq(Es_MPa, allowable),
          divisors |-> {I(w.N), I(4)}
              \cup (IF hasEs THEN {Mul(I(w.N), w.A_mm2)} ELSE {}),
          roots |-> {} ]

DC012_widgets ==
    [P_kg |-> {I(-41), I(0), I(41), I(1000)}, thread |-> {"M10", "M56"},
     A_mm2 |-> {I(-1), I(0), I(58)}, N |-> {1, 4}, angle |-> {"0", "45"},
     F_rated_kg |-> {KeepDefault, 0, 250}, mat |-> {"C15"}]

DC012_first ==
    [P_kg |-> I(41), thread |-> "M10", A_mm2 |-> I(58), N |-> 4,
     angle |-> "0", F_rated_kg |-> KeepDefault, mat |-> "C15"]

render_dc012 ==
    \E w \in Rerun("DC012", DC012_first, DC012_widgets) :
        /\ page' = "DC012"
        /\ inp' = w
        /\ UNCHANGED <<repoVars, sessVars, authVars>>
        /\ out' = DC012_compute(w)

-----------------------------------------------------------------------------
(* page_valve.py : valve data.                                             *)

ASME_RATING_MPA ==
    [c150 |-> R(255, 100), c300 |-> R(510, 100), c600 |-> R(1020, 100),
     c900 |-> R(1530, 100), c1500 |-> R(2550, 100), c2500 |-> R(4250, 100)]

calc_operating_pressure_mpa(asme_class) ==
    IF asme_class \in DOMAIN ASME_RATING_MPA THEN ASME_RATING_MPA[asme_class]
    ELSE I(0)

\* round(x, 2) of a plain rational: to the nearest hundredth, ties to even
Round2(x) ==
    LET m  == 100 * x.n
        fl == m \div x.d
        r2 == 2 * (m - fl * x.d)
        up == r2 > x.d \/ (r2 = x.d /\ fl % 2 = 1)
    IN  IF IsNaN(x) THEN NaN ELSE R(IF up THEN fl + 1 ELSE fl, 100)

\* the result None is the value NaN here
calc_body_wall_thickness_mm(P_mpa, D_mm, S_mpa, CA_mm) ==
    IF Leq(S_mpa, I(0)) \/ Leq(Sub(Mul(I(2), S_mpa), P_mpa), I(0)) THEN NaN
    ELSE Round2(Add(Div(Mul(P_mpa, D_mm), Sub(Mul(I(2), S_mpa), P_mpa)),
                    CA_mm))

Valve_compute(w) ==
    LET P_mpa == calc_operating_pressure_mpa(w.asme_class)
        t_mm  == calc_body_wall_thickness_mm(P_mpa, w.internal_bore_mm,
                     w.allowable_stress_mpa, w.corrosion_allowance_mm)
    IN  [ operating_pressure_mpa |-> P_mpa,
          bore_diameter_mm |-> w.internal_bore_mm, t_mm |-> t_mm,
          divisors |-> IF IsNaN(t_mm) THEN {}
                       ELSE {Sub(Mul(I(2), w.allowable_stress_mpa), P_mpa)},
          roots |-> {} ]

Valve_widgets ==
    [asme_class |-> {"c150", "c600", "c2500"},
     internal_bore_mm |-> {I(-51), I(0), I(51)},
     corrosion_allowance_mm |-> {I(0), I(3)},
     allowable_stress_mpa |-> {I(-138), I(0), I(5), R(51, 10), I(138)}]

Valve_first ==
    [asme_class |-> "c600", internal_bore_mm |-> I(51),
     corrosion_allowance_mm |-> I(3), allowable_stress_mpa |-> I(138)]

render_valve ==
    \E w \in Rerun("Valve", Valve_first, Valve_widgets) :
        /\ page' = "Valve"
        /\ inp' = w
        /\ UNCHANGED <<repoVars, sessVars, authVars>>
        /\ out' = Valve_compute(w)


-----------------------------------------------------------------------------
(* One browser session: the pages rendered one after another over the same *)
(* st.session_state.  `session` keeps the entries that some page reads     *)
(* back; an entry no page reads (st.session_state["dc002"], ...) is the    *)
(* value of `out` after the render and is not kept.  An action is a visit  *)
(* of a page: the script runs, takes its defaults from the session, the    *)
(* user leaves the widget values w, and the last run stores the result.    *)

\* a session nothing was rendered in
FreshSession == [k \in {} |-> 0]

NoDefaults == [k \in {} |-> 0]

\* st.session_state.get(k, d) over the session s
session_get(s, k, d) == IF k \in DOMAIN s THEN s[k] ELSE d

\* dict.get(k, d)
dict_get(dict, k, d) == IF k \in DOMAIN dict THEN dict[k] ELSE d

\* bool(x) of a float: 0.0 is false, everything else (nan too) is true
Truthy(x) == IsNaN(x) \/ x.n # 0

\* int(x) of a float: truncation towards zero
PyInt(x) == Sgn(x.n) * (Abs(x.n) \div x.d)

\* the entries that belong to the keyed widgets of the valve page; Streamlit
\* drops the state of a keyed widget once a run does not render the widget
WidgetKeys == {"valve_nps", "valve_asme_class"}

\* the session without the keyed entries
Stale(s, stale) ==
    IF stale THEN [k \in (DOMAIN s) \ WidgetKeys |-> s[k]] ELSE s

\* a page that reads a keyed entry meets it on its first run and may miss
\* it on a later one
Runs == IF WidgetKeys \cap DOMAIN session = {} THEN {FALSE} ELSE BOOLEAN

\* s with the entries of `writes` stored over it
Store(s, writes) == writes @@ s

\* one visit of page p: defaults d read from session s, widget values w left
\* by the user, result o, and the entries written
Visit(p, s, d, w, o, writes) ==
    /\ page' = p
    /\ dflt' = d
    /\ inp' = w
    /\ out' = o
    /\ session' = Store(s, writes)
    /\ UNCHANGED <<repoVars, authVars>>

ClassNum == [c150 |-> 150, c300 |-> 300, c600 |-> 600, c900 |-> 900,
             c1500 |-> 1500, c2500 |-> 2500]

\* the selections and the bore left on the valve page
Session_valve_inputs ==
    { [nps |-> R(3, 2), asme_class |-> "c900", internal_bore_mm |-> I(51)] }

visit_valve ==
    \E v \in Session_valve_inputs :
        LET w == [Valve_first EXCEPT !.asme_class = v.asme_class,
                                     !.internal_bore_mm = v.internal_bore_mm]
            o == Valve_compute(w)
        IN  Visit("Valve", session, NoDefaults,
                  [nps |-> v.nps] @@ w, o,
                  [valve_nps |-> v.nps,
                   valve_asme_class |-> ClassNum[v.asme_class],
                   operating_pressure_mpa |-> o.operating_pressure_mpa,
                   bore_diameter_mm |-> o.bore_diameter_mm])

-----------------------------------------------------------------------------
(* page_dc007_body.py : body wall thickness (DC007 sheet 1).               *)

B1634_TMIN == (<<2, 600>> :> R(127, 10))

DC007_body_defaults(s) ==
    [nps |-> PyInt(session_get(s, "valve_nps", I(2))),
     asme_class |-> session_get(s, "valve_asme_class", 600),
     Pa |-> session_get(s, "operating_pressure_mpa", R(1021, 100)),
     CA |-> I(3), t_body |-> R(435, 10), t_body_top |-> I(34)]

DC007_body_compute(w) ==
    LET key    == <<w.nps, w.asme_class>>
        t_m    == IF key \in DOMAIN B1634_TMIN THEN B1634_TMIN[key]
                  ELSE R(127, 10)
        t_m_ca == Add(t_m, w.CA)
    IN  [ t_m_mm |-> t_m, t_m_plus_CA_mm |-> t_m_ca,
          ok_body_vs_tm |-> Geq(w.t_body, t_m),
          ok_top_vs_tm |-> Geq(w.t_body_top, t_m),
          ok_body_vs_tmCA |-> Geq(w.t_body, t_m_ca),
          ok_top_vs_tmCA |-> Geq(w.t_body_top, t_m_ca) ]

DC007_body_widgets ==
    [nps |-> {3}, CA |-> {I(0), R(-127, 10)}]

render_dc007_body ==
    \E stale \in Runs, x \in DOMAIN DC007_body_widgets :
      \E v \in DC007_body_widgets[x] :
        LET s == Stale(session, stale)
            d == DC007_body_defaults(s)
            w == [d EXCEPT ![x] = v]
            o == DC007_body_compute(w)
        IN  Visit("DC007_1", s, d, w, o,
                  [dc007_body |-> [t_m_mm |-> o.t_m_mm,
                                   t_m_plus_CA_mm |-> o.t_m_plus_CA_mm]])

-----------------------------------------------------------------------------
(* page_dc007_body_holes.py : body holes (DC007 sheet 2).                  *)

\* the thickness the page takes over from sheet 1; the user cannot edit it
DC007_holes_t_m(s) ==
    IF "dc007_body" \in DOMAIN s
    THEN IF Truthy(s["dc007_body"].t_m_plus_CA_mm)
         THEN s["dc007_body"].t_m_plus_CA_mm
         ELSE s["dc007_body"].t_m_mm
    ELSE R(157, 10)

DC007_holes_defaults(s) ==
    [f_min |-> R(141, 10), fg_min |-> R(278, 10), e_min |-> R(207, 10)]

DC007_holes_compute(w, s) ==
    LET t_m    == DC007_holes_t_m(s)
        req_f  == Mul(R(25, 100), t_m)
        req_fg == Mul(I(1), t_m)
        req_e  == Mul(R(25, 100), t_m)
        ok_f   == Geq(w.f_min, req_f)
        ok_fg  == Geq(w.fg_min, req_fg)
        ok_e   == Geq(w.e_min, req_e)
    IN  [ t_m_mm |-> t_m, req_f_mm |-> req_f, req_fg_mm |-> req_fg,
          req_e_mm |-> req_e, ok_f |-> ok_f, ok_fg |-> ok_fg, ok_e |-> ok_e,
          overall_ok |-> ok_f /\ ok_fg /\ ok_e ]

DC007_holes_widgets ==
    [f_min |-> {I(3)}, fg_min |-> {I(14)}]

render_dc007_body_holes ==
    \E x \in DOMAIN DC007_holes_widgets :
      \E v \in DC007_holes_widgets[x] :
        LET s == session
            d == DC007_holes_defaults(s)
            w == [d EXCEPT ![x] = v]
        IN  Visit("DC007_2", s, d, w, DC007_holes_compute(w, s),
                  FreshSession)

-----------------------------------------------------------------------------
(* The pages of the calculation sheets inside a session.  visit_X is       *)
(* render_X with the defaults the page takes from the session and the      *)
(* entries it leaves there.                                                *)

EmptyDict == [k \in {} |-> 0]

\* round(x, digits) of a plain rational, scale = 10 ** digits
PyRound(x, scale) ==
    LET m  == scale * x.n
        fl == m \div x.d
        r2 == 2 * (m - fl * x.d)
        up == r2 > x.d \/ (r2 = x.d /\ fl % 2 = 1)
    IN  IF IsNaN(x) THEN NaN ELSE R(IF up THEN fl + 1 ELSE fl, scale)

\* st.session_state.get("operating_pressure_mpa", 10.21)
pressure_default(s) == session_get(s, "operating_pressure_mpa", R(1021, 100))

DC001_defaults(s) ==
    [Dm |-> PyRound(session_get(s, "bore_diameter_mm", R(623, 10)), 1000),
     Pa |-> pressure_default(s)]

\* the widget values left on DC001: the spring arrow f decides Pr
Session_dc001_inputs ==
    {DC001_first, [DC001_first EXCEPT !.f = R(1, 2)]}

visit_dc001 ==
    \E w \in Session_dc001_inputs :
        LET s == session
            o == DC001_compute(w)
        IN  Visit("DC001", s, DC001_defaults(s), w, o,
                  [dc001 |-> [Pr |-> o.Pr, Dm |-> o.Dm, Nma |-> o.Nma]])

-----------------------------------------------------------------------------
(* page_dc001a.py : self relieving.                                        *)

K_FACTOR == R(133, 100)

\* F_molle default: float(pr_from_dc001 or 787.1)
DC001A_F_molle_default(s) ==
    IF "dc001" \in DOMAIN s /\ "Pr" \in DOMAIN s["dc001"]
          /\ Truthy(s["dc001"]["Pr"])
    THEN s["dc001"]["Pr"]
    ELSE R(7871, 10)

DC001A_defaults(s) ==
    [dn_display |-> IF "valve_nps" \in DOMAIN s /\ Truthy(s["valve_nps"])
                    THEN <<s["valve_nps"]>> ELSE <<>>,
     tag_no |-> session_get(s, "tag_no", ""),
     rev |-> session_get(s, "rev_no", 0),
     Po |-> pressure_default(s),
     Dc |-> PyRound(session_get(s, "bore_diameter_mm", R(623, 10)), 10),
     Dts |-> I(71),
     F_molle |-> DC001A_F_molle_default(s)]

DC001A_compute(w, s) ==
    LET A  == Mul(Div(PI, I(4)), Sub(Sq(w.Dts), Sq(w.Dc)))
        SR == Mul(Mul(K_FACTOR, w.Po), A)
    IN  [ class |-> session_get(s, "valve_asme_class", 600),
          Po_MPa |-> w.Po, Dc_mm |-> w.Dc, Dts_mm |-> w.Dts,
          F_molle_N |-> w.F_molle, A_mm2 |-> A, SR_N |-> SR,
          verdict |-> IF Geq(SR, w.F_molle) THEN "VERIFIED"
                      ELSE "NOT VERIFIED" ]

DC001A_first ==
    [Po |-> I(10), Dc |-> I(6), Dts |-> I(7), F_molle |-> I(787)]

Session_dc001a_inputs ==
    {DC001A_first, [DC001A_first EXCEPT !.F_molle = I(0)]}

render_dc001a ==
    \E stale \in Runs, w \in Session_dc001a_inputs :
        LET s == Stale(session, stale)
            d == DC001A_defaults(s)
        IN  Visit("DC001A", s, d, w, DC001A_compute(w, s),
                  [tag_no |-> d.tag_no, rev_no |-> d.rev,
                   dc001a |-> [Dts_mm |-> w.Dts]])

-----------------------------------------------------------------------------
(* The other sheets in a session.                                          *)

visit_dc002 ==
    LET s == session
        w == DC002_first
    IN  Visit("DC002", s, [Pa |-> pressure_default(s)], w,
              BoltSection(DC002_BOLT_TENSILE_AREAS_MM2,
                          DC002_H(w.G, w.Pa), w.S, w.n, w.pick),
              EmptyDict)

\* Pa_test default: round(Pa_base * 1.5, 2)
test_pressure_default(s) == PyRound(Mul(pressure_default(s), R(15, 10)), 100)

visit_dc002a ==
    LET s == session
        w == DC002_first
    IN  Visit("DC002A", s, [Pa_test |-> test_pressure_default(s)], w,
              BoltSection(DC002_BOLT_TENSILE_AREAS_MM2,
                          DC002_H(w.G, w.Pa), w.S, w.n, w.pick),
              EmptyDict)

DC003_defaults(s) ==
    [P |-> pressure_default(s),
     Dt |-> IF "dc001a" \in DOMAIN s /\ "Dts_mm" \in DOMAIN s["dc001a"]
            THEN s["dc001a"]["Dts_mm"] ELSE I(71)]

visit_dc003 ==
    LET s == session
    IN  Visit("DC003", s, DC003_defaults(s), DC003_first,
              DC003_compute(DC003_first), EmptyDict)

DC004_defaults(s) ==
    [P |-> pressure_default(s),
     Di |-> session_get(s, "bore_diameter_mm", I(51))]

visit_dc004 ==
    LET s == session
    IN  Visit("DC004", s, DC004_defaults(s), DC004_first,
              DC004_compute(DC004_first), EmptyDict)

visit_dc005 ==
    LET s == session
        w == DC005_first
    IN  Visit("DC005", s, [Pa |-> pressure_default(s)], w,
              BoltSection(DC005_BOLT_TENSILE_AREAS_MM2,
                          DC005_H(w.G, w.Gstem, w.Pa), w.S, w.n, w.pick),
              EmptyDict)

visit_dc005a ==
    LET s == session
        w == DC005_first
    IN  Visit("DC005A", s, [Pa_test |-> test_pressure_default(s)], w,
              BoltSection(DC005_BOLT_TENSILE_AREAS_MM2,
                          DC005_H(w.G, w.Gstem, w.Pa), w.S, w.n, w.pick),
              EmptyDict)

visit_dc006a ==
    LET s == session
    IN  Visit("DC006A", s, [Pa_test |-> test_pressure_default(s)],
              DC006A_first, DC006A_compute(DC006A_first), EmptyDict)

\* _class_to_band(asme_class)
class_to_band(asme_class) ==
    IF asme_class <= 600 THEN "c150_600"
    ELSE IF asme_class <= 900 THEN "c900"
    ELSE IF asme_class <= 1500 THEN "c1500"
    ELSE "c2500"

DC008_defaults(s) ==
    [band |-> class_to_band(session_get(s, "valve_asme_class", 600)),
     Pr |-> pressure_default(s),
     B |-> session_get(s, "bore_diameter_mm", I(51))]

\* the ball diameter left on DC008
Session_dc008_inputs == {DC008_first}

visit_dc008 ==
    \E stale \in Runs, w \in Session_dc008_inputs :
        LET s == Stale(session, stale)
        IN  Visit("DC008", s, DC008_defaults(s), w, DC008_compute(w),
                  [dc008 |-> [D_ball_mm |-> w.D_ball]])

DN_OPTIONS == {FT_TABLE[i][1] : i \in DOMAIN FT_TABLE}

DC011_defaults(s) ==
    LET dn_default == session_get(s, "valve_nps", I(2))
    IN  [inner_bore_mm |-> session_get(s, "bore_diameter_mm", I(51)),
         dn_choice |-> IF dn_default \in DN_OPTIONS THEN dn_default
                       ELSE I(2)]

visit_dc011 ==
    \E stale \in Runs :
        LET s == Stale(session, stale)
        IN  Visit("DC011", s, DC011_defaults(s), DC011_first,
                  DC011_compute(DC011_first), EmptyDict)

visit_dc012 ==
    LET s == session
    IN  Visit("DC012", s,
              [P_kg |-> session_get(s, "valve_weight_kg", I(41))],
              DC012_first, DC012_compute(DC012_first), EmptyDict)

-----------------------------------------------------------------------------
(* page_dc010.py : break to open torque.                                   *)

DC010_defaults(s) ==
    LET dc001_entry == session_get(s, "dc001", EmptyDict)
    IN  [valve_class |-> session_get(s, "valve_asme_class", 600),
         Po |-> pressure_default(s),
         D  |-> dict_get(session_get(s, "dc008", EmptyDict), "D_ball_mm",
                         session_get(s, "D_ball_mm", R(8895, 100))),
         Dc |-> dict_get(session_get(s, "dc001a", EmptyDict), "Dts_mm",
                         I(71)),
         b1 |-> R(3174, 100),
         Dm |-> dict_get(dict_get(dc001_entry, "inputs", EmptyDict), "Dm_mm",
                         session_get(s, "Dm_mm", R(623, 10))),
         Db |-> I(40),
         Pr |-> dict_get(dict_get(dc001_entry, "computed", EmptyDict),
                         "F_real_total_N", session_get(s, "Fmr_N", I(787))),
         Nma |-> dict_get(dict_get(dc001_entry, "inputs", EmptyDict),
                          "n_proj", session_get(s, "Nma", 1)),
         f1 |-> R(3, 100), f2 |-> R(15, 100)]

\* Nma is a number_input with min_value=1: a default below it raises
DC010_raises(d) == d.Nma < 1

DC010_compute(w, s) ==
    LET Fb      == Mul(Div(Mul(PI, Sq(w.Dc)), I(4)), w.Po)
        Mtb_Nmm == Mul(Mul(Fb, w.f1), Div(w.Db, I(2)))
        Fm      == Mul(w.Pr, I(w.Nma))
        Mtm_Nmm == Mul(Mul(Mul(Mul(I(2), Fm), w.f2), R(91, 100)),
                       Div(w.D, I(2)))
        Fi      == Mul(Div(Mul(PI, PyMax(Sub(Sq(w.Dc), Sq(w.Dm)), I(0))),
                           I(4)), w.Po)
        Mti_Nmm == Mul(Mul(Mul(Fi, w.f2), R(91, 100)), Div(w.D, I(2)))
        Tbb1_Nm == Div(Add(Add(Mtb_Nmm, Mtm_Nmm), Mti_Nmm), I(1000))
    IN  [ valve_class |-> session_get(s, "valve_asme_class", 600),
          Fb_N |-> Fb, Mtb_Nm |-> Div(Mtb_Nmm, I(1000)), Fm_N |-> Fm,
          Mtm_Nm |-> Div(Mtm_Nmm, I(1000)), Fi_N |-> Fi,
          Mti_Nm |-> Div(Mti_Nmm, I(1000)), Tbb1_Nm |-> Tbb1_Nm ]

DC010_first ==
    [Po |-> I(1), D |-> I(2), Dc |-> I(2), Dm |-> I(1), Db |-> I(2),
     Pr |-> I(10), Nma |-> 1, f1 |-> R(1, 10), f2 |-> R(1, 2)]

Session_dc010_inputs ==
    {DC010_first, [DC010_first EXCEPT !.Dm = I(3), !.Nma = 2]}

render_dc010 ==
    \E stale \in Runs, w \in Session_dc010_inputs :
        LET s == Stale(session, stale)
            d == DC010_defaults(s)
        IN  Visit("DC010", s, d, w,
                  IF DC010_raises(d) THEN [raised |-> TRUE]
                  ELSE DC010_compute(w, s),
                  EmptyDict)

-----------------------------------------------------------------------------
(* The record repositories (valve_repo.py, dc*_repo.py) over the tables of  *)
(* db.py, and the audit log (audit.py).  One repository is exercised per    *)
(* behaviour; every call runs in one transaction of db.connect().  The      *)
(* database itself does not fail here: the clock is strictly increasing,    *)
(* ids are well-formed uuids (of a live row, of a deleted row, or never     *)
(* assigned), and a statement fails only for a reason the schema gives.     *)

Repos ==
    {"valve", "dc001", "dc001a", "dc002", "dc002a", "dc003", "dc005",
     "dc005a", "dc011", "dc012"}

Users == {"u1", "u2"}

\* number of ids uuid_generate_v4() hands out in one behaviour
MaxId == 2

\* number of committed mutations in one behaviour
MaxClock == 2

\* Optional[...] arguments and None results
None == <<>>

Some(x) == <<x>>

ENTITY(r) == IF r = "valve" THEN "valve_design" ELSE r

\* the literal a repository falls back to for an empty name
DefaultName(r) ==
    CASE r = "valve"  -> <<"U", "n", "t", "i", "t", "l", "e", "d">>
      [] r = "dc001"  -> <<"D", "C", "0", "0", "1">>
      [] r = "dc001a" -> <<"D", "C", "0", "0", "1", "A">>
      [] r = "dc002"  -> <<"D", "C", "0", "0", "2">>
      [] r = "dc002a" -> <<"D", "C", "0", "0", "2", "A">>
      [] r = "dc003"  -> <<"D", "C", "0", "0", "3">>
      [] r = "dc005"  -> <<"D", "C", "0", "0", "5">>
      [] r = "dc005a" -> <<"D", "C", "0", "0", "5", "A">>
      [] r = "dc011"  -> <<"D", "C", "0", "1", "1">>
      [] r = "dc012"  -> <<"D", "C", "0", "1", "2">>

\* str.strip() on a string given as the sequence of its characters
Whitespace == {" "}

RECURSIVE LStrip(_)
LStrip(s) ==
    IF s # <<>> /\ Head(s) \in Whitespace THEN LStrip(Tail(s)) ELSE s

RECURSIVE RStrip(_)
RStrip(s) ==
    IF s # <<>> /\ s[Len(s)] \in Whitespace
    THEN RStrip(SubSeq(s, 1, Len(s) - 1))
    ELSE s

Strip(s) == RStrip(LStrip(s))

clean_name_unstripped(r, name) ==
    IF name = None \/ name[1] = <<>> THEN DefaultName(r) ELSE name[1]

\* (name or DEFAULT).strip() or DEFAULT
clean_name(r, name) ==
    LET given == IF name = None \/ name[1] = <<>> THEN DefaultName(r)
                 ELSE name[1]
    IN  IF Strip(given) = <<>> THEN DefaultName(r) ELSE Strip(given)

\* a payload is a dict from top-level keys to typed values
Val(t, v) == [t |-> t, v |-> v]

PlainPayload ==
    [base |-> Val("dict", "nps_in=2"), inputs |-> Val("str", "x")]

NoBasePayload == [base |-> Val("null", "")]

ClashPayload == [name |-> Val("str", "mine"), _meta |-> Val("str", "mine")]

TuplePayload == [inputs |-> Val("tuple", "1,2")]

Payloads == {PlainPayload, NoBasePayload, ClashPayload, TuplePayload}

CreateNames == {None, Some(<<" ">>), Some(<<" ", "a">>)}

UpdateNames == {None, Some(<<>>), Some(<<"b", " ">>)}

\* the driver writes a dict parameter with json.dumps and the jsonb column
\* gives back what json.loads reads: a tuple comes back as a list
ToJsonb(p) ==
    [k \in DOMAIN p |->
        IF p[k].t = "tuple" THEN Val("list", p[k].v) ELSE p[k]]

\* base = (payload or {}).get("base", {}); base.get(...) works on a dict only
summary_from_base(r, payload) ==
    \/ r = "valve"
    \/ "base" \notin DOMAIN payload
    \/ payload["base"].t = "dict"

\* the INSERT of create: dc001_repo names a design_id column that
\* dc001_calcs has only where the table was altered outside db.py, and the
\* fallback INSERT runs in the transaction the first one aborted
insert_accepted(r) == r # "dc001" \/ design_col

\* BEFORE UPDATE trigger: NEW.updated_at = now()
set_updated_at_stale(row, t) == row

set_updated_at(row, t) == [row EXCEPT !.updated_at = t]

\* log_on_conn: one row of audit_logs
log_on_conn_default_name(action, r, id, name) ==
    [action |-> action, entity_type |-> ENTITY(r), entity_id |-> id,
     name |-> DefaultName(r)]

log_on_conn(action, r, id, name) ==
    [action |-> action, entity_type |-> ENTITY(r), entity_id |-> id,
     name |-> name]

\* WHERE id = :id AND user_id = :uid
owned_rows_any_user(id, uid) == {r \in rows : r.id = id}

owned_rows(id, uid) == {r \in rows : r.id = id /\ r.user_id = uid}

\* facts about the arguments of a call, recorded with its result
id_exists(id) == \E r \in rows : r.id = id

id_owned(id, uid) == \E r \in rows : r.id = id /\ r.user_id = uid

\* what a call did and returned
NoRecord == [k \in {} |-> Val("", "")]

NoMeta == [id |-> 0, name |-> <<>>, created_at |-> 0, updated_at |-> 0]

\* the arguments of a call: the caller, the name and the design_id it
\* supplied
Args(uid, name, design_id) ==
    [uid |-> uid, name |-> name, design_id |-> design_id]

\* audit_failed: the try block around the audit entry raised
Call(op, raised, ok, id, rec, meta, lst, exists, owned, same, args, audit_failed) ==
    [op |-> op, raised |-> raised, ok |-> ok, id |-> id, rec |-> rec,
     meta |-> meta, lst |-> lst, exists |-> exists, owned |-> owned,
     same |-> same, args |-> args, audit_failed |-> audit_failed]

NoCall ==
    Call("none", FALSE, FALSE, 0, NoRecord, NoMeta, <<>>, FALSE, FALSE, FALSE,
         Args("", None, None), FALSE)

\* how the INSERT INTO audit_logs of a call ends: it succeeds, it raises
\* before a statement reaches the server ("client"), or the server rejects the
\* statement and aborts the transaction, whose COMMIT then rolls back
\* ("server")
AuditOutcomes == IF audit_down THEN {"ok", "client", "server"} ELSE {"ok"}

audit_except_reraise(failed) == failed

\* try: log_on_conn(...)  except Exception: pass -- whether the exception
\* leaves the repository function
audit_except(failed) == FALSE

\* what get_*_calc builds from the selected row
get_shape(r) ==
    CASE r \in {"valve", "dc001", "dc005a", "dc011", "dc012"} -> "meta"
      [] r = "dc002" -> "flat"
      [] OTHER -> "data"

FlatKeys == {"id", "name", "created_at", "updated_at"}

returned_record(r, row) ==
    CASE get_shape(r) = "meta" ->
            [k \in DOMAIN row.data \cup {"_meta"} |->
                IF k = "_meta" THEN Val("meta", k) ELSE row.data[k]]
      [] get_shape(r) = "flat" ->
            [k \in DOMAIN row.data \cup FlatKeys |->
                IF k \in FlatKeys THEN Val("meta", k) ELSE row.data[k]]
      [] OTHER -> row.data

returned_meta(r, row) ==
    IF get_shape(r) = "data" THEN NoMeta
    ELSE [id |-> row.id, name |-> row.name, created_at |-> row.created_at,
          updated_at |-> row.updated_at]

\* ORDER BY updated_at DESC, created_at DESC
RECURSIVE order_by_updated_desc(_)
order_by_updated_desc(S) ==
    IF S = {} THEN <<>>
    ELSE LET top == CHOOSE r \in S : \A q \in S :
                        \/ r.updated_at > q.updated_at
                        \/ /\ r.updated_at = q.updated_at
                           /\ r.created_at >= q.created_at
         IN  <<top.id>> \o order_by_updated_desc(S \ {top})

DefaultLimit == 200

ListLimits == {1, DefaultLimit}

\* the arguments of a list call: the caller and the limit
ListArgs(uid, lim) ==
    [uid |-> uid, name |-> None, design_id |-> None, limit |-> lim]

Limit_none(s, lim) == s

\* LIMIT :lim
Limit(s, lim) == SubSeq(s, 1, IF Len(s) < lim THEN Len(s) ELSE lim)

\* the repositories whose create takes a design_id for the design_id column
\* REFERENCES valve_designs(id) ON DELETE SET NULL
LinkedRepos == {"dc005a", "dc011", "dc012"}

DesignIds == {"d1"}

CreateDesigns ==
    IF repo \in LinkedRepos THEN {None} \cup {Some(d) : d \in DesignIds}
    ELSE {None}

\* update_dc001_calc alone takes a design_id ("will apply if column
\* exists"); it is passed where dc001_calcs has the column
UpdateDesigns ==
    IF repo = "dc001" /\ design_col
    THEN {None} \cup {Some(d) : d \in DesignIds}
    ELSE {None}

\* the foreign key of design_id: NULL or the id of a row of valve_designs
references_design(design_id) ==
    design_id = None \/ \E d \in designs : d.id = design_id[1]

audit_insert_first(log, entry) == <<entry>> \o log

\* INSERT INTO audit_logs: the new row is the last one of the log
audit_insert(log, entry) == Append(log, entry)

update_set_owner(old, nm, data, design_id) ==
    [old EXCEPT !.name = nm,
                !.data = IF data = None THEN @ ELSE ToJsonb(data[1]),
                !.design_id = IF design_id = None THEN @ ELSE design_id,
                !.user_id = CHOOSE u \in Users : u # @]

\* UPDATE ... SET name = :name, data = :data [, design_id = :design_id]
update_set(old, nm, data, design_id) ==
    [old EXCEPT !.name = nm,
                !.data = IF data = None THEN @ ELSE ToJsonb(data[1]),
                !.design_id = IF design_id = None THEN @ ELSE design_id]

create_calc ==
    \E uid \in Users, name \in CreateNames, payload \in Payloads,
       design_id \in CreateDesigns, fault \in AuditOutcomes :
        /\ repo \in Repos
        /\ now < MaxClock
        /\ nextId <= MaxId
        /\ LET nm == clean_name(repo, name)
               row == [id |-> nextId, user_id |-> uid, name |-> nm,
                       data |-> ToJsonb(payload), created_at |-> now + 1,
                       updated_at |-> now + 1, design_id |-> design_id]
               summary == summary_from_base(repo, payload)
               failed  == ~ summary \/ fault # "ok"
               aborted == summary /\ fault = "server"
               raised  == audit_except(failed)
           IN  IF insert_accepted(repo) /\ references_design(design_id)
               THEN /\ rows' = IF aborted \/ raised THEN rows
                               ELSE rows \cup {row}
                    /\ audit' = IF failed THEN audit
                                ELSE audit_insert(audit,
                                        log_on_conn("CREATE", repo, nextId, nm))
                    /\ now' = now + 1
                    /\ nextId' = nextId + 1
                    /\ done' = IF raised THEN done ELSE done + 1
                    /\ sent' = IF raised THEN sent
                               ELSE [i \in DOMAIN sent \cup {nextId} |->
                                       IF i = nextId THEN payload ELSE sent[i]]
                    /\ last' = Call("create", raised, ~ raised,
                                    IF raised THEN 0 ELSE nextId, NoRecord,
                                    NoMeta, <<>>, FALSE, FALSE, FALSE,
                                    Args(uid, name, design_id), failed)
               ELSE /\ last' = Call("create", TRUE, FALSE, 0, NoRecord,
                                    NoMeta, <<>>, FALSE, FALSE, FALSE,
                                    Args(uid, name, design_id), FALSE)
                    /\ UNCHANGED <<rows, audit, now, nextId, done, sent>>
        /\ UNCHANGED <<repo, design_col, audit_down, designs>>
        /\ UNCHANGED <<pageVars, sessVars, authVars>>

get_calc ==
    \E id \in 1..MaxId, uid \in Users :
        /\ repo \in Repos
        /\ LET hit == owned_rows(id, uid)
               row == CHOOSE r \in hit : TRUE
           IN  last' = IF hit = {}
                       THEN Call("get", FALSE, FALSE, id, NoRecord, NoMeta,
                                 <<>>, id_exists(id), id_owned(id, uid),
                                 FALSE,
                                 Args(uid, None, None), FALSE)
                       ELSE Call("get", FALSE, TRUE, id,
                                 returned_record(repo, row),
                                 returned_meta(repo, row), <<>>,
                                 id_exists(id), id_owned(id, uid), FALSE,
                                 Args(uid, None, None), FALSE)
        /\ UNCHANGED <<repo, design_col, rows, audit, now, nextId, done, sent,
                       audit_down, designs>>
        /\ UNCHANGED <<pageVars, sessVars, authVars>>

list_calcs ==
    \E uid \in Users, lim \in ListLimits :
        /\ repo \in Repos
        /\ last' = Call("list", FALSE, TRUE, 0, NoRecord, NoMeta,
                        Limit(order_by_updated_desc(
                                  {r \in rows : r.user_id = uid}), lim),
                        FALSE, FALSE, FALSE,
                        ListArgs(uid, lim), FALSE)
        /\ UNCHANGED <<repo, design_col, rows, audit, now, nextId, done, sent,
                       audit_down, designs>>
        /\ UNCHANGED <<pageVars, sessVars, authVars>>

update_calc ==
    \E id \in 1..MaxId, uid \in Users,
       name \in UpdateNames \cup {Some(r.name) : r \in rows},
       data \in {None, Some(PlainPayload)} \cup {Some(r.data) : r \in rows},
       design_id \in UpdateDesigns, fault \in AuditOutcomes :
        /\ repo \in Repos
        /\ now < MaxClock
        /\ LET hit == owned_rows(id, uid)
               old == CHOOSE r \in hit : TRUE
               nothing == name = None /\ data = None
               ok == ~ nothing /\ hit # {}
               nm == IF name = None THEN old.name ELSE clean_name(repo, name)
               new == set_updated_at(
                          update_set(old, nm, data, design_id), now + 1)
               same == \E r \in rows :
                           /\ r.id = id /\ r.user_id = uid
                           /\ name = Some(r.name) /\ data = Some(r.data)
               failed  == fault # "ok"
               aborted == fault = "server"
               raised  == audit_except(failed)
           IN  IF ok
               THEN /\ rows' = IF aborted \/ raised THEN rows
                               ELSE (rows \ {old}) \cup {new}
                    /\ audit' = IF failed THEN audit
                                ELSE audit_insert(audit,
                                        log_on_conn("UPDATE", repo, id, nm))
                    /\ now' = now + 1
                    /\ done' = IF raised THEN done ELSE done + 1
                    /\ sent' = IF data = None \/ raised THEN sent
                               ELSE [sent EXCEPT ![id] = data[1]]
                    /\ last' = Call("update", raised, ~ raised, id, NoRecord,
                                    NoMeta, <<>>, id_exists(id),
                                    id_owned(id, uid), same,
                                    Args(uid, name, design_id), failed)
               ELSE /\ fault = "ok"
                    /\ last' = Call("update", FALSE, FALSE, id, NoRecord,
                                    NoMeta, <<>>, id_exists(id),
                                    id_owned(id, uid), FALSE,
                                    Args(uid, name, design_id), FALSE)
                    /\ UNCHANGED <<rows, audit, now, done, sent>>
        /\ UNCHANGED <<repo, design_col, nextId, audit_down, designs>>
        /\ UNCHANGED <<pageVars, sessVars, authVars>>

delete_calc ==
    \E id \in 1..MaxId, uid \in Users, fault \in AuditOutcomes :
        /\ repo \in Repos
        /\ now < MaxClock
        /\ LET hit == owned_rows(id, uid)
               old == CHOOSE r \in hit : TRUE
               failed  == fault # "ok"
               aborted == fault = "server"
               raised  == audit_except(failed)
           IN  IF hit # {}
               THEN /\ rows' = IF aborted \/ raised THEN rows ELSE rows \ hit
                    /\ audit' = IF failed THEN audit
                                ELSE audit_insert(audit,
                                        log_on_conn("DELETE", repo, id,
                                                    old.name))
                    /\ now' = now + 1
                    /\ done' = IF raised THEN done ELSE done + 1
                    /\ last' = Call("delete", raised, ~ raised, id, NoRecord,
                                    NoMeta, <<>>, id_exists(id),
                                    id_owned(id, uid), FALSE,
                                    Args(uid, None, None), failed)
               ELSE /\ fault = "ok"
                    /\ last' = Call("delete", FALSE, FALSE, id, NoRecord,
                                    NoMeta, <<>>, id_exists(id),
                                    id_owned(id, uid), FALSE,
                                    Args(uid, None, None), FALSE)
                    /\ UNCHANGED <<rows, audit, now, done>>
        /\ UNCHANGED <<repo, design_col, nextId, sent, audit_down, designs>>
        /\ UNCHANGED <<pageVars, sessVars, authVars>>

-----------------------------------------------------------------------------
(***************************************************************************)
(* Sign-in: the token store of auth.py and the script run of app.py.       *)
(*                                                                         *)
(* Streamlit runs the script of every browser session in a thread of its   *)
(* own, and every token function reads tokens.json whole, changes its      *)
(* copy and writes the copy back, with no lock.  The read and the write    *)
(* of one call are therefore two steps, and the steps of other sessions    *)
(* can fall between them.                                                  *)
(***************************************************************************)

Sessions == {"s1", "s2"}

\* secrets.token_urlsafe(24): the values the generator can still hand out
Tokens == {"t1", "t2"}

\* authenticate(): the account that signs in (role "superadmin")
User == "admin"

TOKEN_TTL_SECONDS == 7 * 24 * 3600

\* how many seconds past the lifetime of the first token the clock runs
MaxLate == 1

Pop(d, k) == [x \in DOMAIN d \ {k} |-> d[x]]

Put(d, k, e) == [x \in DOMAIN d \cup {k} |-> IF x = k THEN e ELSE d[x]]

load_tokens == tokens_file

token_entry(username, t) == [username |-> username, exp |-> t + TOKEN_TTL_SECONDS]

token_expired(entry, t) == t > entry.exp

\* what validate_token(token) returns, from the copy of the store it loaded
validate_token(tokens, token, t) ==
    IF token = None THEN None
    ELSE IF token[1] \notin DOMAIN tokens THEN None
    ELSE IF token_expired(tokens[token[1]], t) THEN None
    ELSE Some(tokens[token[1]].username)

\* what validate_token(token) leaves in tokens.json
validate_saves(file, tokens, token, t) ==
    IF /\ token # None
       /\ token[1] \in DOMAIN tokens
       /\ token_expired(tokens[token[1]], t)
    THEN Pop(tokens, token[1])
    ELSE file

\* what revoke_token(token) leaves in tokens.json
revoke_saves(file, tokens, token) ==
    IF token[1] \in DOMAIN tokens THEN Pop(tokens, token[1]) ELSE file

\* what issue_token(username) leaves in tokens.json
issue_saves(tokens, token, username, t) ==
    Put(tokens, token, token_entry(username, t))

Idle == [pc |-> "idle", tokens |-> EmptyDict, click |-> "none", v |-> None,
         main |-> "none", began_revoked |-> FALSE, logged_out |-> FALSE]

SignedOut ==
    /\ tokens_file = EmptyDict
    /\ clock = 0
    /\ st_user = [s \in Sessions |-> None]
    /\ auth_view = [s \in Sessions |-> "none"]
    /\ query_auth = [s \in Sessions |-> None]
    /\ run = [s \in Sessions |-> Idle]
    /\ hist = [issued |-> EmptyDict, revoked |-> {}, lost |-> FALSE]

\* the call of session s writes file from a copy that is out of date
stale_save(s, file) == file # tokens_file /\ run[s].tokens # tokens_file

\* the MAIN part of app.py: what the run shows for this user and view
main_area(user, view) ==
    IF user # None /\ view = "login" THEN "rerun"
    ELSE IF view = "login" THEN "login"
    ELSE IF view = "register" THEN "register"
    ELSE IF user = None THEN "signin"
    ELSE "page"

main_view(user, view) == IF user # None /\ view = "login" THEN "none" ELSE view

\* the auto-login block: the view after validate_token returned v
auto_login_view(v, view) ==
    IF v # None /\ view \in {"login", "none"} THEN "none" ELSE view

\* the logins under way or done: each takes a token of its own
Logins ==
    Cardinality(DOMAIN hist.issued)
    + Cardinality({s \in Sessions : run[s].pc # "idle" /\ run[s].click = "login"})

\* The script from the sidebar on, for the button pressed in this run, with
\* user u and view w in the session state and file the content of
\* tokens.json; v is what the auto-login block got from validate_token.
sidebar_and_main(s, click, u, w, file, v) ==
    LET r == [run[s] EXCEPT !.click = "none", !.v = v, !.tokens = EmptyDict,
                            !.began_revoked = FALSE]
    IN
    IF click = "sign_in" /\ u = None
    THEN /\ st_user' = [st_user EXCEPT ![s] = u]
         /\ auth_view' = [auth_view EXCEPT ![s] = "login"]
         /\ run' = [run EXCEPT ![s] = [r EXCEPT !.pc = "idle", !.main = "rerun",
                                                !.logged_out = FALSE]]
         /\ UNCHANGED query_auth
    ELSE IF click = "login" /\ u = None /\ w = "login"
    THEN \* login_form: authenticate succeeded, issue_token loads the store
         /\ st_user' = [st_user EXCEPT ![s] = Some(User)]
         /\ auth_view' = [auth_view EXCEPT ![s] = w]
         /\ run' = [run EXCEPT ![s] = [r EXCEPT !.pc = "issue", !.main = "none",
                                                !.tokens = file,
                                                !.click = "login",
                                                !.logged_out = FALSE]]
         /\ UNCHANGED query_auth
    ELSE IF click = "logout" /\ u # None /\ query_auth[s] # None
    THEN \* logout_now: revoke_token loads the store
         /\ run' = [run EXCEPT ![s] = [r EXCEPT !.pc = "revoke", !.main = "none",
                                                !.tokens = file]]
         /\ UNCHANGED <<st_user, auth_view, query_auth>>
    ELSE IF click = "logout" /\ u # None
    THEN /\ st_user' = [st_user EXCEPT ![s] = None]
         /\ auth_view' = [auth_view EXCEPT ![s] = "login"]
         /\ run' = [run EXCEPT ![s] = [r EXCEPT !.pc = "idle", !.main = "rerun",
                                                !.logged_out = TRUE]]
         /\ UNCHANGED query_auth
    ELSE IF click = "register" /\ u # None
    THEN /\ st_user' = [st_user EXCEPT ![s] = u]
         /\ auth_view' = [auth_view EXCEPT ![s] = "register"]
         /\ run' = [run EXCEPT ![s] = [r EXCEPT !.pc = "idle", !.main = "rerun"]]
         /\ UNCHANGED query_auth
    ELSE /\ st_user' = [st_user EXCEPT ![s] = u]
         /\ auth_view' = [auth_view EXCEPT ![s] = main_view(u, w)]
         /\ run' = [run EXCEPT ![s] = [r EXCEPT !.pc = "idle",
                                                !.main = main_area(u, w),
                                                !.logged_out = FALSE]]
         /\ UNCHANGED query_auth

\* The start of a script run of session s.  Without a user in the session
\* the auto-login block calls validate_token on the URL's token, which
\* loads the store when there is a token.
script_run(s, click) ==
    /\ run[s].pc = "idle"
    /\ IF st_user[s] = None /\ query_auth[s] # None
       THEN /\ run' = [run EXCEPT ![s] =
                          [@ EXCEPT !.pc = "validate", !.click = click,
                                    !.tokens = load_tokens, !.main = "none",
                                    !.began_revoked =
                                        query_auth[s][1] \in hist.revoked]]
            /\ UNCHANGED <<tokens_file, st_user, auth_view, query_auth, hist>>
       ELSE /\ sidebar_and_main(s, click, st_user[s], auth_view[s],
                                tokens_file, None)
            /\ UNCHANGED <<tokens_file, hist>>
    /\ UNCHANGED clock
    /\ UNCHANGED <<pageVars, repoVars, sessVars>>

\* a widget changed, st.rerun() ran, or the page was reloaded in place
run_plain(s) == run[s].pc = "idle" /\ script_run(s, "none")

\* "Sign in" of the sidebar, or "Open Sign in form" of the main area
click_sign_in(s) == st_user[s] = None /\ script_run(s, "sign_in")

\* the login form submitted with a valid user name and password
submit_login(s) ==
    /\ st_user[s] = None
    /\ auth_view[s] = "login"
    /\ Logins < Cardinality(Tokens)
    /\ script_run(s, "login")

click_logout(s) == st_user[s] # None /\ script_run(s, "logout")

click_register(s) == st_user[s] # None /\ script_run(s, "register")

\* validate_token from the loaded copy on, then the rest of the run
validate_end(s) ==
    /\ run[s].pc = "validate"
    /\ LET v == validate_token(run[s].tokens, query_auth[s], clock)
           file == validate_saves(tokens_file, run[s].tokens, query_auth[s],
                                  clock)
       IN /\ tokens_file' = file
          /\ hist' = [hist EXCEPT !.lost = @ \/ stale_save(s, file)]
          /\ sidebar_and_main(s, run[s].click,
                              IF v # None THEN v ELSE st_user[s],
                              auto_login_view(v, auth_view[s]), file, v)
    /\ UNCHANGED clock
    /\ UNCHANGED <<pageVars, repoVars, sessVars>>

\* issue_token from the loaded copy on, then the rest of login_form
issue_end(s) ==
    /\ run[s].pc = "issue"
    /\ \E token \in Tokens \ DOMAIN hist.issued :
          /\ tokens_file' = issue_saves(run[s].tokens, token, st_user[s][1],
                                        clock)
          /\ query_auth' = [query_auth EXCEPT ![s] = Some(token)]
          /\ hist' = [hist EXCEPT !.issued = Put(@, token, clock),
                                   !.lost = @ \/ run[s].tokens # tokens_file]
    /\ auth_view' = [auth_view EXCEPT ![s] = "none"]
    /\ run' = [run EXCEPT ![s] = [@ EXCEPT !.pc = "idle", !.main = "rerun",
                                           !.tokens = EmptyDict,
                                           !.click = "none"]]
    /\ UNCHANGED <<clock, st_user>>
    /\ UNCHANGED <<pageVars, repoVars, sessVars>>

\* revoke_token from the loaded copy on, then the rest of logout_now.  The
\* URL loses its token unless _set_query_token raises, which logout_now
\* swallows.
revoke_end(s) ==
    /\ run[s].pc = "revoke"
    /\ tokens_file' = revoke_saves(tokens_file, run[s].tokens, query_auth[s])
    /\ hist' = [hist EXCEPT !.revoked = @ \cup {query_auth[s][1]},
                             !.lost = @ \/ stale_save(s, tokens_file')]
    /\ \E cleared \in BOOLEAN :
          query_auth' = [query_auth EXCEPT ![s] = IF cleared THEN None ELSE @]
    /\ st_user' = [st_user EXCEPT ![s] = None]
    /\ auth_view' = [auth_view EXCEPT ![s] = "login"]
    /\ run' = [run EXCEPT ![s] = [@ EXCEPT !.pc = "idle", !.main = "rerun",
                                           !.tokens = EmptyDict,
                                           !.logged_out = TRUE]]
    /\ UNCHANGED clock
    /\ UNCHANGED <<pageVars, repoVars, sessVars>>

\* a hard refresh: a new session state under the same URL
hard_refresh(s) ==
    /\ run[s].pc = "idle"
    /\ st_user[s] # None \/ auth_view[s] # "none"
    /\ st_user' = [st_user EXCEPT ![s] = None]
    /\ auth_view' = [auth_view EXCEPT ![s] = "none"]
    /\ run' = [run EXCEPT ![s] = [@ EXCEPT !.main = "none"]]
    /\ UNCHANGED <<tokens_file, clock, query_auth, hist>>
    /\ UNCHANGED <<pageVars, repoVars, sessVars>>

\* time passes: up to the last second of the first tokens, then past it
tick ==
    /\ clock < TOKEN_TTL_SECONDS + MaxLate
    /\ clock' = IF clock < TOKEN_TTL_SECONDS THEN TOKEN_TTL_SECONDS ELSE clock + 1
    /\ UNCHANGED <<tokens_file, st_user, auth_view, query_auth, run, hist>>
    /\ UNCHANGED <<pageVars, repoVars, sessVars>>


InitPages ==
    /\ page = "none"
    /\ inp = [x \in {} |-> 0]
    /\ out = [x \in {} |-> 0]
    /\ repo = "none"
    /\ design_col = FALSE
    /\ rows = {}
    /\ audit = <<>>
    /\ now = 0
    /\ nextId = 1
    /\ done = 0
    /\ sent = [i \in {} |-> NoRecord]
    /\ last = NoCall
    /\ audit_down = FALSE
    /\ designs = {}
    /\ session = FreshSession
    /\ dflt = NoDefaults
    /\ SignedOut

NextPages ==
    \/ render_valve
    \/ render_dc001
    \/ render_dc002
    \/ render_dc002a
    \/ render_dc003
    \/ render_dc004
    \/ render_dc005
    \/ render_dc005a
    \/ render_dc006a
    \/ render_dc008
    \/ render_dc011
    \/ render_dc012

SpecPages == InitPages /\ [][NextPages]_vars

on_delete_cascade(rs, d, t) == {r \in rs : r.design_id # Some(d)}

\* design_id ... REFERENCES valve_designs(id) ON DELETE SET NULL: the
\* referencing rows are updated, so their BEFORE UPDATE trigger fires too
on_delete_set_null(rs, d, t) ==
    {IF r.design_id = Some(d)
     THEN set_updated_at([r EXCEPT !.design_id = None], t)
     ELSE r : r \in rs}

delete_valve_design ==
    \E d \in DesignIds, uid \in Users, fault \in AuditOutcomes :
        /\ repo \in LinkedRepos
        /\ now < MaxClock
        /\ LET hit == {x \in designs : x.id = d /\ x.user_id = uid}
               name_before == (CHOOSE x \in hit : TRUE).name
               failed  == fault # "ok"
               aborted == fault = "server"
               raised  == audit_except(failed)
           IN  IF hit # {}
               THEN /\ designs' = IF aborted \/ raised THEN designs
                                  ELSE designs \ hit
                    /\ rows' = IF aborted \/ raised THEN rows
                               ELSE on_delete_set_null(rows, d, now + 1)
                    /\ audit' = IF failed THEN audit
                                ELSE audit_insert(audit,
                                        log_on_conn("DELETE", "valve", d,
                                                    name_before))
                    /\ now' = now + 1
                    /\ done' = IF raised THEN done ELSE done + 1
                    /\ last' = Call("delete_valve_design", raised, ~ raised,
                                    0, NoRecord, NoMeta, <<>>,
                                    \E x \in designs : x.id = d, TRUE, FALSE,
                                    Args(uid, None, Some(d)), failed)
               ELSE /\ fault = "ok"
                    /\ last' = Call("delete_valve_design", FALSE, FALSE,
                                    0, NoRecord, NoMeta, <<>>,
                                    \E x \in designs : x.id = d, FALSE, FALSE,
                                    Args(uid, None, Some(d)), FALSE)
                    /\ UNCHANGED <<designs, rows, audit, now, done>>
        /\ UNCHANGED <<repo, design_col, nextId, sent, audit_down>>
        /\ UNCHANGED <<pageVars, sessVars, authVars>>

InitRepo ==
    /\ repo \in Repos
    /\ design_col \in (IF repo = "dc001" THEN BOOLEAN ELSE {FALSE})
    /\ rows = {}
    /\ audit = <<>>
    /\ now = 0
    /\ nextId = 1
    /\ done = 0
    /\ sent = [i \in {} |-> NoRecord]
    /\ last = NoCall
    /\ audit_down = FALSE
    /\ designs = {}
    /\ page = "none"
    /\ inp = [x \in {} |-> 0]
    /\ out = [x \in {} |-> 0]
    /\ session = FreshSession
    /\ dflt = NoDefaults
    /\ SignedOut

NextRepo ==
    \/ create_calc
    \/ get_calc
    \/ list_calcs
    \/ update_calc
    \/ delete_calc

SpecRepo == InitRepo /\ [][NextRepo]_vars

\* the calculation tables that refer to valve_designs, in a database that
\* holds one design of u1 and one calculation of u1 made for that design
LinkedName == <<"a">>

InitLinked ==
    /\ repo \in LinkedRepos
    /\ design_col = FALSE
    /\ designs = {[id |-> d, user_id |-> "u1", name |-> <<"v">>] :
                      d \in DesignIds}
    /\ rows = {[id |-> 1, user_id |-> "u1", name |-> LinkedName,
                data |-> ToJsonb(PlainPayload),
                created_at |-> 0, updated_at |-> 0,
                design_id |-> Some(d)] : d \in DesignIds}
    /\ audit = <<log_on_conn("CREATE", repo, 1, LinkedName)>>
    /\ now = 0
    /\ nextId = 2
    /\ done = 1
    /\ sent = (1 :> PlainPayload)
    /\ last = NoCall
    /\ audit_down = FALSE
    /\ page = "none"
    /\ inp = [x \in {} |-> 0]
    /\ out = [x \in {} |-> 0]
    /\ session = FreshSession
    /\ dflt = NoDefaults
    /\ SignedOut

NextLinked ==
    \/ create_calc
    \/ get_calc
    \/ list_calcs
    \/ update_calc
    \/ delete_calc
    \/ delete_valve_design

SpecLinked == InitLinked /\ [][NextLinked]_vars

\* the repositories over a database in which a write to audit_logs can fail
FaultRepos == {"valve", "dc001", "dc005a"}

InitAuditFault ==
    /\ repo \in FaultRepos
    /\ design_col \in (IF repo = "dc001" THEN BOOLEAN ELSE {FALSE})
    /\ rows = {}
    /\ audit = <<>>
    /\ now = 0
    /\ nextId = 1
    /\ done = 0
    /\ sent = [i \in {} |-> NoRecord]
    /\ last = NoCall
    /\ audit_down = TRUE
    /\ designs = {}
    /\ page = "none"
    /\ inp = [x \in {} |-> 0]
    /\ out = [x \in {} |-> 0]
    /\ session = FreshSession
    /\ dflt = NoDefaults
    /\ SignedOut

SpecAuditFault == InitAuditFault /\ [][NextRepo]_vars

InitSession == InitPages

NextSession ==
    \/ visit_valve
    \/ visit_dc001
    \/ render_dc001a
    \/ visit_dc002
    \/ visit_dc002a
    \/ visit_dc003
    \/ visit_dc004
    \/ visit_dc005
    \/ visit_dc005a
    \/ visit_dc006a
    \/ render_dc007_body
    \/ render_dc007_body_holes
    \/ visit_dc008
    \/ render_dc010
    \/ visit_dc011
    \/ visit_dc012

SpecSession == InitSession /\ [][NextSession]_vars

\* nobody is signed in, tokens.json is the empty dictionary _ensure_store
\* writes
InitAuth == InitPages

NextAuth ==
    \/ \E s \in Sessions : run_plain(s)
    \/ \E s \in Sessions : click_sign_in(s)
    \/ \E s \in Sessions : submit_login(s)
    \/ \E s \in Sessions : click_logout(s)
    \/ \E s \in Sessions : click_register(s)
    \/ \E s \in Sessions : validate_end(s)
    \/ \E s \in Sessions : issue_end(s)
    \/ \E s \in Sessions : revoke_end(s)
    \/ \E s \in Sessions : hard_refresh(s)
    \/ tick

SpecAuth == InitAuth /\ [][NextAuth]_vars

-----------------------------------------------------------------------------
(* Properties of the calculation pages (checked under SpecPages).          *)

BoltPages == {"DC002", "DC002A", "DC005", "DC005A"}

\* the catalog a bolt page selects from
BoltCatalog(p) ==
    IF p \in {"DC002", "DC002A"} THEN DC002_BOLT_TENSILE_AREAS_MM2
    ELSE DC005_BOLT_TENSILE_AREAS_MM2

\* the positions (1-based) of the catalog entries with area >= a_req
Qualifying(catalog, a_req) ==
    {i \in DOMAIN catalog : Geq(catalog[i].area, a_req)}

\* C4: on DC002, DC002A, DC005 and DC005A, whenever some catalog entry has
\* a tensile stress area >= a', the bolt selected by default is a qualifying
\* entry and no qualifying entry has a smaller area.
C4_DefaultIsSmallestQualifying ==
    page \in BoltPages =>
        LET catalog == BoltCatalog(page)
            q       == Qualifying(catalog, out.a_req_each_mm2)
            d       == out.default_idx + 1
        IN  q # {} =>
                /\ d \in q
                /\ \A i \in q : Leq(catalog[d].area, catalog[i].area)

\* C5: on DC002, when no catalog entry has a tensile stress area >= a', the
\* bolt selected by default is the entry with the largest area.
C5_FallbackIsLargest ==
    page = "DC002" =>
        LET catalog == DC002_BOLT_TENSILE_AREAS_MM2
            d       == out.default_idx + 1
        IN  Qualifying(catalog, out.a_req_each_mm2) = {} =>
                \A i \in DOMAIN catalog : Leq(catalog[i].area, catalog[d].area)

\* Fm = pi * Dm * q * z, from the widget values
C6_Fm == Mul(Mul(Mul(PI, inp.Dm), inp.q), inp.z)

C7_Denom(S, P) == Mul(I(2), Sub(S, Mul(R(6, 10), P)))

\* the thickness P * Di / (2 * (S - 0.6 * P)), NaN when the denominator <= 0
C7_Thickness(S, P, Di) ==
    IF Leq(C7_Denom(S, P), I(0)) THEN NaN
    ELSE Div(Mul(P, Di), C7_Denom(S, P))

\* C7: in DC004 t_design and t_test are both computed, each NaN exactly when
\* its denominator is <= 0; the required thickness is max(t_design, t_test)
\* (the larger of the two when both are defined); the verdict is NOT VERIFIED
\* when the required thickness is NaN, and otherwise VERIFIED iff
\* 6.90 >= required thickness.
C7_DC004Verdict ==
    page = "DC004" =>
        LET td == out.t_design_mm
            tt == out.t_test_mm
            rq == out.required_t_mm
        IN  /\ td = C7_Thickness(inp.SaF316, inp.P, inp.Di)
            /\ tt = C7_Thickness(inp.SmF316, inp.PT, inp.Di)
            /\ rq = PyMax(td, tt)
            /\ (~ IsNaN(td) /\ ~ IsNaN(tt)) =>
                   (rq \in {td, tt} /\ Geq(rq, td) /\ Geq(rq, tt))
            /\ IsNaN(rq) => out.verdict = "NOT VERIFIED"
            /\ ~ IsNaN(rq) =>
                   (out.verdict = "VERIFIED" <=> Geq(R(690, 100), rq))
            /\ out.verdict \in {"VERIFIED", "NOT VERIFIED"}

\* C7 witness: both thicknesses defined and the required one exactly 6.90
C7_Witness ==
    /\ page = "DC004"
    /\ ~ IsNaN(out.t_design_mm)
    /\ ~ IsNaN(out.t_test_mm)
    /\ out.required_t_mm = R(690, 100)
    /\ out.verdict = "VERIFIED"

\* C8: no page computation divides by zero or takes the square root of a
\* non-positive number: every divisor a render used is a number other than
\* zero and every argument of math.sqrt is > 0.
C8_Total ==
    page # "none" =>
        /\ \A d \in out.divisors : ~ IsNaN(d) /\ d.n # 0
        /\ \A r \in out.roots : Gt(r, I(0))

\* C8 witness: DC001 rendered with f <= 0, Dm <= 0 and P <= 0, so that the
\* three clamps act and the divisor is 1e-9
C8_Witness ==
    /\ page = "DC001"
    /\ Leq(inp.f, I(0))
    /\ Leq(inp.Dm, I(0))
    /\ Leq(inp.P, I(0))
    /\ EPS \in out.divisors

-----------------------------------------------------------------------------
(* Properties of the repositories (checked under SpecRepo).                 *)

C2_AuditCountsMutations == Len(audit) = done

\* C3: no committed row exists without the audit entry of its creation.
C3_NoRowWithoutAudit ==
    \A r \in rows : \E i \in 1..Len(audit) :
        audit[i].action = "CREATE" /\ audit[i].entity_id = r.id

\* C9: reading back a record that was created with payload P (and not
\* updated since) returns every key of P with P's value.
C9_RoundTrip ==
    (/\ last.op = "get"
     /\ last.ok
     /\ \E r \in rows : r.id = last.id /\ r.updated_at = r.created_at)
    => \A k \in DOMAIN sent[last.id] :
           k \in DOMAIN last.rec /\ last.rec[k] = sent[last.id][k]

\* C10: an update that passes the stored name and the stored payload of a
\* row its caller owns returns True, leaves name and payload as they were
\* and advances updated_at.
C10_SameUpdateTouches ==
    [][(last'.op = "update" /\ last'.same) =>
          /\ last'.ok
          /\ now' # now =>
                \E old \in rows, new \in rows' :
                    /\ old.id = last'.id
                    /\ new.id = last'.id
                    /\ new.name = old.name
                    /\ new.data = old.data
                    /\ new.updated_at > old.updated_at]_vars

\* C10 witness: such an update was made and returned True
C10_Witness ==
    /\ last.op = "update"
    /\ last.same
    /\ last.ok
    /\ \E r \in rows : r.id = last.id /\ r.updated_at > r.created_at

-----------------------------------------------------------------------------
(* Claims on single page renders, continued (SpecPages).                   *)

\* C20: on DC012 Ec is OK exactly when F > 0 and P / N <= F; an F the user
\* did not enter is the table's rated load for the thread and the angle, and
\* for M56 at 0 degrees, which the table leaves empty, it is 0 and Ec is
\* NOT OK whatever the weight P.
C20_EyeBoltCondition ==
    page = "DC012" =>
        LET tbl  == IF inp.angle = "0" THEN RATED_0_MAP ELSE RATED_45_MAP
            none == inp.angle = "0" /\ inp.thread = "M56"
        IN  /\ out.Ec_ok <=>
                  /\ Gt(out.F_rated_kg, I(0))
                  /\ Leq(Div(inp.P_kg, I(inp.N)), out.F_rated_kg)
            /\ (inp.F_rated_kg = KeepDefault /\ ~ none) =>
                  out.F_rated_kg = I(tbl[inp.thread])
            /\ (inp.F_rated_kg = KeepDefault /\ none) =>
                  out.F_rated_kg = I(0) /\ ~ out.Ec_ok

C20_Witness ==
    /\ page = "DC012"
    /\ inp.thread = "M56" /\ inp.angle = "0"
    /\ inp.F_rated_kg = KeepDefault
    /\ inp.P_kg = I(0)
    /\ ~ out.Ec_ok


\* C21: on DC008 the hoop-stress verdict is OK exactly when the top
\* thickness T = H - B/2 is positive and St1a = Pr * (0.5 * (B/T) + 0.6) is
\* at most 2/3 of Sy; with T <= 0 the stress is undefined and the verdict is
\* NOT OK.
C21_HoopVerdict ==
    page = "DC008" =>
        LET T    == Sub(inp.H, Div(inp.B, I(2)))
            St   == Mul(inp.Pr, Add(Mul(R(1, 2), Div(inp.B, T)), R(6, 10)))
            lim  == Mul(R(2, 3), inp.Sy)
        IN  /\ (out.verdict = "OK") <=> (Gt(T, I(0)) /\ Leq(St, lim))
            /\ out.verdict \in {"OK", "NOT OK"}
            /\ ~ Gt(T, I(0)) =>
                  IsNaN(out.St1a_MPa) /\ out.verdict = "NOT OK"

C21_Witness ==
    /\ page = "DC008"
    /\ inp.H = I(25) /\ inp.B = I(50)
    /\ IsNaN(out.St1a_MPa)
    /\ out.verdict = "NOT OK"

\* C22: on DC011 K_total = K_local + K_fric, where K_local is K1 for a
\* taper angle of 0 and K2 for a positive one, and K_fric is f_t * (L / D)
\* with f_t taken from the table by DN when the angle, L and D are all
\* positive and 0 otherwise; with an angle of 0 the taper length is ignored
\* and K_total = K1.
C22_TotalResistance ==
    page = "DC011" =>
        LET pos  == /\ Gt(inp.theta_deg, I(0)) /\ Gt(inp.taper_len_mm, I(0))
                    /\ Gt(inp.inner_bore_mm, I(0))
            fric == IF pos
                    THEN Mul(FT_MAP(inp.dn_choice),
                             Div(inp.taper_len_mm, inp.inner_bore_mm))
                    ELSE I(0)
        IN  /\ out.K_fric = fric
            /\ inp.theta_deg = I(0) => out.K_local = inp.K1
            /\ Gt(inp.theta_deg, I(0)) => out.K_local = inp.K2
            /\ out.K_total = Add(out.K_local, out.K_fric)
            /\ inp.theta_deg = I(0) => out.K_total = inp.K1

C22_Witness ==
    /\ page = "DC011"
    /\ inp.theta_deg = I(0) /\ inp.taper_len_mm = I(508)
    /\ inp.K1 # inp.K2
    /\ out.K_total = inp.K1

C22_WitnessFriction ==
    /\ page = "DC011"
    /\ Gt(inp.theta_deg, I(0))
    /\ Gt(out.K_fric, I(0))
    /\ out.K_total = Add(inp.K2, out.K_fric)

\* C23: on DC004, whenever t_design or t_test is undefined, whichever of
\* the two it is, the required thickness is undefined and the verdict is
\* NOT VERIFIED.
C23_UndefinedNeverMasked ==
    page = "DC004" =>
        ((IsNaN(out.t_design_mm) \/ IsNaN(out.t_test_mm)) =>
            /\ IsNaN(out.required_t_mm)
            /\ out.verdict = "NOT VERIFIED")

C24_WitnessVerified ==
    /\ page \in BoltPages
    /\ Geq(inp.S, EPS) /\ Gt(out.Wm1_N, I(0))
    /\ inp.pick = KeepDefault
    /\ out.default_idx > 0
    /\ out.verdict = "VERIFIED"

-----------------------------------------------------------------------------
(* Claims on the pages inside one session (SpecSession).                   *)

\* C11: what a page shows and stores is a function of the values of its own
\* inputs only: the result of a render equals the result the same page
\* computes from the same widget values in a session nothing was rendered
\* in before.  (The valve class printed in the header of DC001A and DC010 is
\* left out of the comparison.)
C11_OutputsFromInputsOnly ==
    /\ page = "DC007_2" => out = DC007_holes_compute(inp, FreshSession)
    /\ page = "DC001A" =>
          [out EXCEPT !.class = 600] = DC001A_compute(inp, FreshSession)
    /\ page = "DC010" =>
          [out EXCEPT !.valve_class = 600] = DC010_compute(inp, FreshSession)

\* C19: a default a page takes from the session is the session's value when
\* the entry is there and the built-in fallback when it is not: the spring
\* force of DC001A is the Pr left by DC001, else 787.1, and the thickness
\* DC007-2 works with is the t_m + C/A left by DC007-1, else 15.7.
C19_DefaultsFromSession ==
    /\ page = "DC001A" =>
          dflt.F_molle = IF "dc001" \in DOMAIN session
                         THEN session["dc001"].Pr
                         ELSE R(7871, 10)
    /\ page = "DC007_2" =>
          out.t_m_mm = IF "dc007_body" \in DOMAIN session
                       THEN session["dc007_body"].t_m_plus_CA_mm
                       ELSE R(157, 10)

\* C25: once DC001 was rendered in the session, the defaults DC010 shows for
\* the contact diameter Dm, the spring force Pr and the number of springs
\* Nma are the Dm, Pr and Nma DC001 left in the session; its defaults for
\* D and Dc are the D_ball of DC008 and the Dts of DC001A when those pages
\* were rendered.
C25_DC010DefaultsFromDC001 ==
    page = "DC010" =>
        /\ "dc001" \in DOMAIN session =>
              /\ dflt.Dm = session["dc001"].Dm
              /\ dflt.Pr = session["dc001"].Pr
              /\ dflt.Nma = session["dc001"].Nma
        /\ "dc008" \in DOMAIN session =>
              dflt.D = session["dc008"].D_ball_mm
        /\ "dc001a" \in DOMAIN session =>
              dflt.Dc = session["dc001a"].Dts_mm

-----------------------------------------------------------------------------
(* Claims on the repositories, continued (SpecRepo).                       *)

\* a supplied name that is None, empty or made of whitespace only
Blank(name) ==
    name = None \/ \A i \in 1..Len(name[1]) : name[1][i] \in Whitespace

\* C12: after every successful create, and every successful update that
\* supplies a name, the stored name has no leading or trailing whitespace, is
\* not empty, and is the default of the record type when the supplied name
\* is None, empty or whitespace only.
C12_StoredNameNormalized ==
    [][(/\ last'.op \in {"create", "update"}
        /\ last'.ok
        /\ last'.op = "update" => last'.args.name # None) =>
          \E r \in rows' :
              /\ r.id = last'.id
              /\ r.name # <<>>
              /\ r.name[1] \notin Whitespace
              /\ r.name[Len(r.name)] \notin Whitespace
              /\ Blank(last'.args.name) => r.name = DefaultName(repo)]_vars

\* a record created as " a" and stored as "a" is renamed to "": it gets the
\* default name
C12_Witness ==
    /\ last.op = "update" /\ last.ok
    /\ last.args.name = Some(<<>>)
    /\ \E r \in rows : r.id = last.id /\ r.name = DefaultName(repo)
    /\ \E i \in 1..Len(audit) :
          /\ audit[i].action = "CREATE" /\ audit[i].entity_id = last.id
          /\ audit[i].name = <<"a">>

C14_UpdatedAtMonotone ==
    [][/\ \A r \in rows' : r.updated_at >= r.created_at
       /\ \A r \in rows : \A q \in rows' :
             q.id = r.id => q.updated_at >= r.updated_at
       /\ (last'.op = "update" /\ last'.ok /\ rows' # rows) =>
             /\ now' > now
             /\ \A q \in rows' : q.id = last'.id => q.updated_at = now'
      ]_vars

C14_Witness ==
    /\ last.op = "update" /\ last.ok
    /\ \E r \in rows :
          r.id = last.id /\ r.updated_at = now /\ r.updated_at > r.created_at

\* C15: the id and the owner of a record never change; an update changes,
\* in the one record it addresses, only name, data, design_id and the
\* updated_at stamp, and no other record at all.
C15_OwnerAndIdFixed ==
    [][/\ \A r \in rows : \A q \in rows' :
             q.id = r.id => /\ q.user_id = r.user_id
                            /\ q.created_at = r.created_at
       /\ \A q1, q2 \in rows' : q1.id = q2.id => q1 = q2
       /\ last'.op = "update" =>
             /\ {r.id : r \in rows'} = {r.id : r \in rows}
             /\ \A r \in rows : r.id # last'.id => r \in rows'
             /\ \A r \in rows : \A q \in rows' :
                   (q.id = r.id /\ last'.args.design_id = None) =>
                       q.design_id = r.design_id
      ]_vars

C15_Witness ==
    /\ last.op = "update" /\ last.ok /\ last.args.name # None
    /\ last.args.design_id # None
    /\ \E r \in rows :
          /\ r.id = last.id /\ r.updated_at > r.created_at
          /\ r.user_id = last.args.uid
          /\ r.design_id = last.args.design_id

\* C16: in every step the audit log is unchanged or is the old log with new
\* entries after its last one; no entry already written changes or goes.
C16_AuditAppendOnly ==
    [][/\ Len(audit') >= Len(audit)
       /\ SubSeq(audit', 1, Len(audit)) = audit]_vars

C16_Witness ==
    /\ Len(audit) = 2
    /\ audit[1].action = "CREATE"
    /\ audit[2].action \in {"UPDATE", "DELETE"}

(***************************************************************************)
(* Claims on calculations made for a valve design (SpecLinked)             *)
(***************************************************************************)

\* C17: when delete_valve_design(d) returns True, every calculation that
\* referred to d is still there with the same id, owner, name and payload
\* and with design_id NULL, and the step removes no calculation at all.
C17_DesignDeleteKeepsCalcs ==
    [][(last'.op = "delete_valve_design" /\ last'.ok) =>
          /\ {r.id : r \in rows'} = {r.id : r \in rows}
          /\ \A r \in rows : \A q \in rows' :
                q.id = r.id =>
                    /\ q.user_id = r.user_id
                    /\ q.name = r.name
                    /\ q.data = r.data
                    /\ q.design_id =
                          IF r.design_id = last'.args.design_id
                          THEN None ELSE r.design_id
      ]_vars

C17_Witness ==
    /\ last.op = "delete_valve_design" /\ last.ok
    /\ designs = {}
    /\ \E r, q \in rows :
          /\ r.user_id = "u1" /\ q.user_id = "u2"
          /\ r.design_id = None /\ q.design_id = None
          /\ r.updated_at = now /\ q.updated_at = now

-----------------------------------------------------------------------------
\* the last call was create_dc001_calc with a design it may refer to, and
\* nothing went wrong with its audit entry
dc001_create_called ==
    /\ repo = "dc001"
    /\ last.op = "create"
    /\ references_design(last.args.design_id)
    /\ ~ last.audit_failed

\* C29: create_dc001_calc inserts the row and returns its new id whether
\* dc001_calcs has a design_id column or not; without the column the
\* fallback insert succeeds in the same transaction and is committed.
C29_CreateWithOrWithoutDesignColumn ==
    dc001_create_called =>
        /\ ~ last.raised
        /\ last.ok
        /\ \E r \in rows : r.id = last.id

\* with the column the first insert is the one that is committed
C29_CreateWithDesignColumn ==
    dc001_create_called /\ design_col =>
        /\ ~ last.raised
        /\ last.ok
        /\ \E r \in rows : r.id = last.id

\* the action an audit entry carries for a repository operation
AuditAction(op) ==
    CASE op = "create" -> "CREATE"
      [] op = "update" -> "UPDATE"
      [] op = "delete" -> "DELETE"
      [] OTHER -> "NONE"

\* the step wrote the audit entry e for the call recorded in last'
audit_describes(e) ==
    /\ last'.ok
    /\ e.action = AuditAction(last'.op)
    /\ e.entity_type = ENTITY(repo)
    /\ e.entity_id = last'.id
    /\ last'.op \in {"create", "update"} =>
           \E r \in rows' : r.id = last'.id /\ e.name = r.name
    /\ (last'.op = "update" /\ last'.args.name = None) =>
           \E r \in rows : r.id = last'.id /\ e.name = r.name
    /\ last'.op = "delete" =>
           /\ \E r \in rows : r.id = last'.id /\ e.name = r.name
           /\ \A r \in rows' : r.id # last'.id

\* C30: the audit entry a successful mutation writes has the action of the
\* operation, the repository's entity type, the id of the affected record
\* and its name: the name after the change for CREATE and UPDATE (the
\* existing one when the update gave none), the name before the deletion
\* for DELETE.
C30_AuditDescribesMutation ==
    [][Len(audit') = Len(audit) + 1 => audit_describes(audit'[Len(audit')])]_vars

\* an update that gave no name was logged under the name the record keeps
C30_Witness ==
    /\ last.op = "update"
    /\ last.ok
    /\ last.args.name = None
    /\ audit # <<>>
    /\ audit[Len(audit)].action = "UPDATE"
    /\ audit[Len(audit)].entity_id = last.id
    /\ audit[Len(audit)].name # DefaultName(repo)
    /\ \E r \in rows : r.id = last.id /\ r.name = audit[Len(audit)].name

\* a rename was logged under the new name
C30_WitnessRename ==
    /\ last.op = "update"
    /\ last.ok
    /\ last.args.name # None
    /\ Len(audit) >= 2
    /\ audit[Len(audit)].action = "UPDATE"
    /\ audit[Len(audit) - 1].action = "CREATE"
    /\ audit[Len(audit) - 1].entity_id = last.id
    /\ audit[Len(audit)].name # audit[Len(audit) - 1].name

\* a deletion was logged under the name the record had
C30_WitnessDelete ==
    /\ last.op = "delete"
    /\ last.ok
    /\ audit # <<>>
    /\ audit[Len(audit)].action = "DELETE"
    /\ audit[Len(audit)].name # DefaultName(repo)

(***************************************************************************)
(* Claims on the token store and the sign-in of the app.                   *)
(***************************************************************************)

\* the validate_token call of session s returns in this step
validate_returns(s) == run[s].pc = "validate" /\ run'[s].pc # "validate"

\* C26: once revoke_token(t) has returned, every validate_token(t) that
\* starts afterwards returns None, whatever calls of other sessions
\* interleaved with the revoke.
C26_RevokedStaysInvalid ==
    [][\A s \in Sessions :
          validate_returns(s) /\ run[s].began_revoked => run'[s].v = None]_vars

\* the token session s validates is one issue_token handed out, no
\* revoke_token of it had returned when the call started, and it is within
\* its lifetime
token_in_force(s) ==
    /\ query_auth[s][1] \in DOMAIN hist.issued
    /\ ~ run[s].began_revoked
    /\ clock <= hist.issued[query_auth[s][1]] + TOKEN_TTL_SECONDS

validate_contract(s) ==
    /\ run'[s].v # None <=> token_in_force(s)
    /\ (query_auth[s][1] \in DOMAIN hist.issued /\ ~ token_in_force(s))
           => query_auth[s][1] \notin DOMAIN tokens_file'
    /\ run'[s].v # None => tokens_file' = tokens_file

\* C27: validate_token(t) returns a user exactly when t was issued, has not
\* been revoked and the time is at most its expiry; an expired or revoked
\* token is not in the store afterwards; validating a valid token leaves
\* the store as it was.
C27_ValidateContract ==
    [][\A s \in Sessions : validate_returns(s) => validate_contract(s)]_vars

\* the same, as long as no call has saved a copy that was out of date
C27_ContractWithoutLostUpdate ==
    [][\A s \in Sessions :
          validate_returns(s) /\ ~ hist.lost => validate_contract(s)]_vars

\* a page function of PAGE_MAP ran only in a run that had a user in the
\* session and neither the login nor the register view
pages_need_user(s) ==
    run'[s].main = "page"
        => st_user'[s] # None /\ auth_view'[s] \notin {"login", "register"}

\* the first run after logout_now: its auto-login finds no user
logout_holds(s) ==
    validate_returns(s) /\ run[s].logged_out => run'[s].v = None

\* C28: a calculation page is rendered only with a user in the session and
\* auth_view neither "login" nor "register", and the run after logout_now
\* finds no user even when the URL still carries the old token.
C28_PagesOnlyWhenSignedIn ==
    [][\A s \in Sessions : pages_need_user(s) /\ logout_holds(s)]_vars

\* the dispatch alone: no page without a user, whatever the token store does
C28_DispatchNeedsUser == [][\A s \in Sessions : pages_need_user(s)]_vars

\* the whole of it, as long as no call has saved a copy that was out of date
C28_HoldsWithoutLostUpdate ==
    [][\A s \in Sessions :
          ~ hist.lost => pages_need_user(s) /\ logout_holds(s)]_vars

=========================================================================
